---- MODULE Spec2Model ----
(***************************************************************************)
(* A state-machine model of the newsflows feed generator: the firehose     *)
(* event projector (subscription.ts), the ingestion-scope resolver         *)
(* (util/ingestion-scope.ts), the commit-stream client, the engagement     *)
(* aggregator (util/engagement-updater.ts), the retention job              *)
(* (util/retention.ts), the feed endpoint (methods/feed-generation.ts,     *)
(* algos/feed-builder.ts) with its request audit log, the compliance       *)
(* engagement export (methods/monitor.ts), the interval schedulers         *)
(* (util/scheduled-updater.ts) and the study endpoints (methods/study.ts). *)
(*                                                                         *)
(* Shared state is the relational store (post, engagement, follows,        *)
(* subscriber, sub_state, request_log, request_posts) plus the in-process  *)
(* state of each component.  Each component is exercised by its own        *)
(* specification (SpecIngest, SpecQuote, SpecStream, SpecScope,            *)
(* SpecScopeFair, SpecAgg, SpecAggFair, SpecAggFrame, SpecBinds,           *)
(* SpecRetention, SpecRetentionEnv, SpecFeed, SpecSkeleton, SpecExport,    *)
(* SpecPaging, SpecSched, SpecStudy, SpecRateLimit) over the same          *)
(* variables.                                                              *)
(***************************************************************************)
EXTENDS Integers, Sequences, FiniteSets, TLC

VARIABLES
    post,            \* table post: uri -> row
    engagement,      \* table engagement: uri -> row
    follows,         \* table follows: set of <<subject, follows>>
    subscriber,      \* table subscriber: set of dids
    sub_state,       \* table sub_state: <<>> (no row) or <<cursor>>
    env,             \* process.env flags read by ingestion-scope.ts
    now,             \* Date.now(), in abstract ticks
    cached,          \* ingestion-scope.ts `cached`
    refreshInFlight, \* ingestion-scope.ts `refreshInFlight`: <<>> or <<refresh id>>
    refreshes,       \* the async refresh closures started so far
    callers,         \* getIngestionScope invocations in progress
    he,              \* the handleEvent invocation in progress
    stream,          \* commit-stream client (connection, position)
    agg,             \* updateEngagement runs in progress
    evt,             \* history: what the last completed operation was
    binds,           \* bind-parameter accounting of an updateEngagement run
    retention,       \* retention configuration and runRetentionOnce passes in progress
    feed,            \* the buildFeed invocation in progress and its response
    exp,             \* the engagement export request in progress and its response
    request_log,     \* table request_log: the rows in id order (id = index)
    request_posts,   \* table request_posts: set of rows
    timers,          \* setTimeout callbacks of buildFeed that have not finished
    sched,           \* the interval schedulers of util/scheduled-updater.ts and their runs
    study            \* the protected HTTP endpoints: configuration, request in progress

dbVars    == <<post, engagement, follows, subscriber, sub_state>>
scopeVars == <<cached, refreshInFlight, refreshes, callers>>
logVars   == <<request_log, request_posts, timers>>
jobVars   == <<binds, retention, feed, exp, logVars, sched, study>>
exceptBinds     == <<retention, feed, exp, logVars, sched, study>>
exceptRetention == <<binds, feed, exp, logVars, sched, study>>
exceptFeed      == <<binds, retention, exp, logVars, sched, study>>
exceptExport    == <<binds, retention, feed, logVars, sched, study>>
exceptFeedLog   == <<binds, retention, exp, sched, study>>
exceptSched     == <<binds, retention, feed, exp, logVars, study>>
exceptStudy     == <<binds, retention, feed, exp, logVars, sched>>
vars      == <<post, engagement, follows, subscriber, sub_state, env, now,
               cached, refreshInFlight, refreshes, callers, he, stream, agg, evt,
               binds, retention, feed, exp, request_log, request_posts, timers,
               sched, study>>

(***************************************************************************)
(* Bounds of the model.                                                    *)
(***************************************************************************)
MaxClock  == 2      \* the clock runs 0..MaxClock
MaxEvents == 2      \* commit batches handled per behaviour (SpecIngest)
MaxSeq    == 3      \* sequence numbers the upstream relay produces (SpecStream)

(***************************************************************************)
(* Helpers.                                                                *)
(***************************************************************************)
Range(s) == {s[i] : i \in DOMAIN s}

\* concatenation of a sequence of sequences
RECURSIVE Flatten(_)
Flatten(ss) == IF ss = <<>> THEN <<>> ELSE Head(ss) \o Flatten(Tail(ss))

(***************************************************************************)
(* AT-URIs.  A URI string is modelled as its "/"-separated segments, so    *)
(* "at://did/coll/rkey" is <<"at:", "", did, coll, rkey>> and the empty    *)
(* string is <<>>.  The regular expressions of the source are evaluated on *)
(* the segments.                                                           *)
(***************************************************************************)
PostColl == "app.bsky.feed.post"
LikeColl == "app.bsky.feed.like"
RepostColl == "app.bsky.feed.repost"
GeneratorColl == "app.bsky.feed.generator"

MkUri(did, coll, rkey) == <<"at:", "", did, coll, rkey>>
NoUri == <<>>

\* /^at:\/\/[^/]+\/app\.bsky\.feed\.post\//.test(uri)
isPostUri(uri) ==
    /\ Len(uri) >= 5
    /\ uri[1] = "at:" /\ uri[2] = "" /\ uri[3] # ""
    /\ uri[4] = PostColl

\* /^at:\/\/([^/]+)\//.exec(uri): the did, or "" for null
didFromAtUri(uri) ==
    IF Len(uri) >= 4 /\ uri[1] = "at:" /\ uri[2] = "" /\ uri[3] # ""
    THEN uri[3] ELSE ""

(***************************************************************************)
(* Identities.  "P" is the configured publisher (a NEWSBOT_*_DID), "S" a   *)
(* subscriber candidate, "A" and "B" ordinary accounts.                    *)
(***************************************************************************)
Dids == {"A", "B", "P", "S"}

\* getPublisherDidsFromEnv / getNewsbotDids: the NEWSBOT_*_DID variables
NewsbotDids == {"P"}

(***************************************************************************)
(* Ingestion scope (util/ingestion-scope.ts).                              *)
(***************************************************************************)
scopedIngestionEnabled == env.scoped
trackSubscriberActivityEnabled == env.track
restrictPublisherEngagementToSubscribersEnabled == env.restrict

\* allowlistRefreshMs(): FEEDGEN_ALLOWLIST_REFRESH_MS, default 60_000 (scaled to ticks)
allowlistRefreshMs == 2

NoCache == [valid |-> FALSE, loadedAtMs |-> 0,
            scope |-> [allowlistedAuthorDids |-> {}, publisherDids |-> {},
                       subscriberDids |-> {}]]

\* the scope assembled by the refresh closure from the rows it read
BuildScope(followsRows, subsRows) ==
    [allowlistedAuthorDids |-> {r[2] : r \in followsRows} \cup NewsbotDids,
     publisherDids |-> NewsbotDids,
     subscriberDids |-> subsRows]

\* whether the refresh closure issues the subscriber query
LoadsSubscribers ==
    trackSubscriberActivityEnabled \/ restrictPublisherEngagementToSubscribersEnabled

\* mutant: the age of the cached scope is not looked at
CacheFreshAnyAge(c, t) == c.valid

\* `cached && now - cached.loadedAtMs < refreshMs`
CacheFresh(c, t) == c.valid /\ t - c.loadedAtMs < allowlistRefreshMs

\* getIngestionScope run by a single caller with no concurrent caller: the
\* value it returns and the cache it leaves
ScopeNow ==
    IF CacheFresh(cached, now) THEN cached.scope
    ELSE BuildScope(follows, IF LoadsSubscribers THEN subscriber ELSE {})

CacheAfterScopeNow ==
    IF CacheFresh(cached, now) THEN cached
    ELSE [valid |-> TRUE, loadedAtMs |-> now, scope |-> ScopeNow]

(***************************************************************************)
(* handleEvent (subscription.ts): the storage decisions.                   *)
(* `sc` is <<>> when no scope was fetched, else <<scope>>.                 *)
(***************************************************************************)
\* mutant: the reply parent is not consulted
shouldStorePostNoParent(create, sc) ==
    IF ~scopedIngestionEnabled \/ sc = <<>> THEN TRUE
    ELSE LET scope == sc[1]
             rootDid == didFromAtUri(create.replyRoot)
         IN  \/ create.author \in scope.allowlistedAuthorDids
             \/ rootDid # "" /\ rootDid \in scope.allowlistedAuthorDids
             \/ scopedIngestionEnabled /\ trackSubscriberActivityEnabled
                   /\ create.author \in scope.subscriberDids

shouldStorePost(create, sc) ==
    IF ~scopedIngestionEnabled \/ sc = <<>> THEN TRUE
    ELSE LET scope == sc[1]
             rootDid == didFromAtUri(create.replyRoot)
             parentDid == didFromAtUri(create.replyParent)
             trackSubscriberActivity ==
                 scopedIngestionEnabled /\ trackSubscriberActivityEnabled
         IN  \/ create.author \in scope.allowlistedAuthorDids
             \/ rootDid # "" /\ rootDid \in scope.allowlistedAuthorDids
             \/ parentDid # "" /\ parentDid \in scope.allowlistedAuthorDids
             \/ trackSubscriberActivity /\ create.author \in scope.subscriberDids

\* mutant: the publisher restriction is never applied
shouldStoreEngagementForUnrestricted(author, subjectUri, sc) ==
    IF subjectUri = NoUri \/ ~isPostUri(subjectUri) THEN FALSE
    ELSE IF ~scopedIngestionEnabled \/ sc = <<>> THEN TRUE
    ELSE LET scope == sc[1]
             subjectDid == didFromAtUri(subjectUri)
         IN  \/ subjectDid # "" /\ subjectDid \in scope.allowlistedAuthorDids
             \/ scopedIngestionEnabled /\ trackSubscriberActivityEnabled
                   /\ author \in scope.subscriberDids

shouldStoreEngagementFor(author, subjectUri, sc) ==
    IF subjectUri = NoUri \/ ~isPostUri(subjectUri) THEN FALSE
    ELSE IF ~scopedIngestionEnabled \/ sc = <<>> THEN TRUE
    ELSE LET scope == sc[1]
             subjectDid == didFromAtUri(subjectUri)
             trackSubscriberActivity ==
                 scopedIngestionEnabled /\ trackSubscriberActivityEnabled
             restrictPublisherEngagementToSubscribers ==
                 scopedIngestionEnabled /\ restrictPublisherEngagementToSubscribersEnabled
         IN  IF subjectDid # "" /\ subjectDid \in scope.allowlistedAuthorDids
             THEN IF /\ restrictPublisherEngagementToSubscribers
                     /\ subjectDid \in scope.publisherDids
                     /\ Cardinality(scope.subscriberDids) > 0
                  THEN author \in scope.subscriberDids
                  ELSE TRUE
             ELSE trackSubscriberActivity /\ author \in scope.subscriberDids

shouldStoreEngagement(create, sc) ==
    shouldStoreEngagementFor(create.author, create.subject, sc)

\* mutant: quotes are gated like likes, by the allowlist
shouldStoreQuoteEngagementAllowlist(author, subjectUri, sc) ==
    IF subjectUri = NoUri \/ ~isPostUri(subjectUri) THEN FALSE
    ELSE IF ~scopedIngestionEnabled \/ sc = <<>> THEN TRUE
    ELSE LET scope == sc[1]
             subjectDid == didFromAtUri(subjectUri)
         IN  \/ scopedIngestionEnabled /\ trackSubscriberActivityEnabled
                   /\ author \in scope.subscriberDids
             \/ subjectDid # "" /\ subjectDid \in scope.allowlistedAuthorDids

shouldStoreQuoteEngagement(author, subjectUri, sc) ==
    IF subjectUri = NoUri \/ ~isPostUri(subjectUri) THEN FALSE
    ELSE IF ~scopedIngestionEnabled \/ sc = <<>> THEN TRUE
    ELSE LET scope == sc[1]
             subjectDid == didFromAtUri(subjectUri)
             trackSubscriberActivity ==
                 scopedIngestionEnabled /\ trackSubscriberActivityEnabled
         IN  \/ trackSubscriberActivity /\ author \in scope.subscriberDids
             \/ subjectDid # "" /\ subjectDid \in scope.publisherDids

\* getQuotedRecord(embed): the quoted uri, or NoUri for null.  An embed is
\* [kind, uri]: "record" carries embed.record.uri, "recordWithMedia" carries
\* embed.record.record.uri, "external" a link card, "none" no embed.
getQuotedRecord(embed) ==
    IF embed.kind \in {"record", "recordWithMedia"} THEN embed.uri ELSE NoUri

(***************************************************************************)
(* Storage statements.  A table is a function from uri to row.             *)
(***************************************************************************)
EmptyTable == <<>>

\* DELETE FROM t WHERE uri IN (uris)
DeleteByUri(table, uris) ==
    [u \in DOMAIN table \ Range(uris) |-> table[u]]

\* INSERT INTO t VALUES (rows) ON CONFLICT DO NOTHING: an existing row is
\* kept, and of several new rows with one uri the first is inserted
InsertIgnore(table, rows, stored) ==
    LET newUris == {rows[i].uri : i \in DOMAIN rows} \ DOMAIN table
        first(u) == CHOOSE i \in DOMAIN rows :
                        /\ rows[i].uri = u
                        /\ \A j \in 1..(i - 1) : rows[j].uri # u
    IN  [u \in DOMAIN table \cup newUris |->
            IF u \in DOMAIN table THEN table[u] ELSE stored[first(u)]]

\* the post row a values-tuple creates: priority NULL, counts at their
\* column defaults (migrations 001, 002)
PostRow(v) ==
    [author |-> v.author, indexedAt |-> v.indexedAt, rootUri |-> v.rootUri,
     linkUrl |-> v.linkUrl, priority |-> <<>>,
     likes_count |-> 0, repost_count |-> 0, comments_count |-> 0, quote_count |-> 0]

EngagementRow(v) ==
    [subjectUri |-> v.subjectUri, type |-> v.type, indexedAt |-> v.indexedAt,
     author |-> v.author]

(***************************************************************************)
(* handleEvent: the four lists it builds from a decoded commit batch.      *)
(* A batch is [posts, reposts, likes], each [creates, deletes] sequences.  *)
(***************************************************************************)
UrisOf(dels) == [i \in 1..Len(dels) |-> dels[i].uri]

postsToDelete(ops) == UrisOf(ops.posts.deletes)

postsToCreate(ops, sc, t) ==
    LET keep(c) == shouldStorePost(c, sc)
        kept == SelectSeq(ops.posts.creates, keep)
    IN  [i \in 1..Len(kept) |->
            [uri |-> kept[i].uri, indexedAt |-> t, author |-> kept[i].author,
             rootUri |-> kept[i].replyRoot,
             linkUrl |-> IF kept[i].embed.kind = "external"
                         THEN kept[i].embed.uri ELSE NoUri]]

\* mutant: the uris of deleted posts are not put on the engagement delete list
engagementsToDeleteOwnRecords(ops) ==
    UrisOf(ops.reposts.deletes) \o UrisOf(ops.likes.deletes)

engagementsToDelete(ops) ==
    UrisOf(ops.reposts.deletes) \o UrisOf(ops.likes.deletes) \o UrisOf(ops.posts.deletes)

engagementsToCreate(ops, sc, t) ==
    LET keep(c) == shouldStoreEngagement(c, sc)
        reposts == SelectSeq(ops.reposts.creates, keep)
        likes == SelectSeq(ops.likes.creates, keep)
        eng(c, ty) == [uri |-> c.uri, subjectUri |-> c.subject, type |-> ty,
                       indexedAt |-> t, author |-> c.author]
        quote(c) ==
            LET quoted == getQuotedRecord(c.embed)
            IN  IF quoted = NoUri THEN <<>>
                ELSE IF ~shouldStoreQuoteEngagement(c.author, quoted, sc) THEN <<>>
                ELSE << [uri |-> c.uri, subjectUri |-> quoted, type |-> 3,
                         indexedAt |-> t, author |-> c.author] >>
    IN  [i \in 1..Len(reposts) |-> eng(reposts[i], 1)]
        \o [i \in 1..Len(likes) |-> eng(likes[i], 2)]
        \o Flatten([i \in 1..Len(ops.posts.creates) |-> quote(ops.posts.creates[i])])

\* the scope handleEvent resolves before building the lists
NeedsScope ==
    LET scopedIngestion == scopedIngestionEnabled
        trackSubscriberActivity == scopedIngestion /\ trackSubscriberActivityEnabled
        restrictPublisherEngagementToSubscribers ==
            scopedIngestion /\ restrictPublisherEngagementToSubscribersEnabled
    IN  scopedIngestion \/ trackSubscriberActivity \/ restrictPublisherEngagementToSubscribers

\* the four statements, each guarded by `length > 0`
ExecPostDelete(table, uris) == IF Len(uris) > 0 THEN DeleteByUri(table, uris) ELSE table
ExecPostInsert(table, rows) ==
    IF Len(rows) > 0
    THEN InsertIgnore(table, rows, [i \in DOMAIN rows |-> PostRow(rows[i])])
    ELSE table
ExecEngagementDelete(table, uris) == IF Len(uris) > 0 THEN DeleteByUri(table, uris) ELSE table
ExecEngagementInsert(table, rows) ==
    IF Len(rows) > 0 THEN InsertIgnore(table, rows, [i \in DOMAIN rows |-> EngagementRow(rows[i])]) ELSE table

(***************************************************************************)
(* Decoded operations used as inputs of the projector.                     *)
(***************************************************************************)
NoEmbed == [kind |-> "none", uri |-> NoUri]

PostCreate(uri, root, parent, embed) ==
    [uri |-> uri, author |-> uri[3], replyRoot |-> root, replyParent |-> parent,
     embed |-> embed]
SubjectCreate(uri, subject) == [uri |-> uri, author |-> uri[3], subject |-> subject]
Delete(uri) == [uri |-> uri]

uA1 == MkUri("A", PostColl, "1")
uP1 == MkUri("P", PostColl, "1")
uB1 == MkUri("B", PostColl, "1")
uB2 == MkUri("B", PostColl, "2")
uB3 == MkUri("B", PostColl, "3")
uB4 == MkUri("B", PostColl, "4")
uB5 == MkUri("B", PostColl, "5")
uB6 == MkUri("B", PostColl, "6")
uS2 == MkUri("S", PostColl, "2")
uGenA == MkUri("A", GeneratorColl, "g")
uGenP == MkUri("P", GeneratorColl, "g")

cA1 == PostCreate(uA1, NoUri, NoUri, NoEmbed)
cP1 == PostCreate(uP1, NoUri, NoUri, [kind |-> "external", uri |-> <<"https:", "", "news">>])
cB1 == PostCreate(uB1, NoUri, NoUri, NoEmbed)
cB2 == PostCreate(uB2, uA1, uA1, NoEmbed)                          \* reply to A
cB3 == PostCreate(uB3, uB1, uA1, NoEmbed)                          \* parent by A only
cB4 == PostCreate(uB4, NoUri, NoUri, [kind |-> "record", uri |-> uA1])  \* quotes A
cB5 == PostCreate(uB5, NoUri, NoUri, [kind |-> "record", uri |-> uP1])  \* quotes P
cB6 == PostCreate(uB6, NoUri, NoUri, [kind |-> "record", uri |-> uGenP]) \* quotes a non-post
cS2 == PostCreate(uS2, NoUri, NoUri, [kind |-> "recordWithMedia", uri |-> uB1])

lBA == SubjectCreate(MkUri("B", LikeColl, "a"), uA1)
lBP == SubjectCreate(MkUri("B", LikeColl, "p"), uP1)
lSP == SubjectCreate(MkUri("S", LikeColl, "p"), uP1)
lSB == SubjectCreate(MkUri("S", LikeColl, "b"), uB1)
lBG == SubjectCreate(MkUri("B", LikeColl, "g"), uGenA)
lB0 == SubjectCreate(MkUri("B", LikeColl, "0"), NoUri)
rBP == SubjectCreate(MkUri("B", RepostColl, "p"), uP1)
rSB == SubjectCreate(MkUri("S", RepostColl, "b"), uB1)

NoOps == [creates |-> <<>>, deletes |-> <<>>]
Batch(pc, pd, rc, rd, lc, ld) ==
    [posts |-> [creates |-> pc, deletes |-> pd],
     reposts |-> [creates |-> rc, deletes |-> rd],
     likes |-> [creates |-> lc, deletes |-> ld]]

IngestBatches ==
    {Batch(<<cB2>>, <<>>, <<>>, <<>>, <<>>, <<>>),
     Batch(<<cB4>>, <<>>, <<>>, <<>>, <<>>, <<>>),
     Batch(<<cB1, cB3, cB6, cS2>>, <<>>, <<>>, <<>>, <<>>, <<>>),
     Batch(<<>>, <<>>, <<>>, <<>>, <<lSP>>, <<>>),
     Batch(<<>>, <<>>, <<>>, <<>>, <<lBA, lBP, lSB, lBG>>, <<>>),
     Batch(<<>>, <<Delete(uA1)>>, <<>>, <<>>, <<>>, <<>>),
     \* one commit that deletes and creates the same record
     Batch(<<cA1>>, <<Delete(uA1)>>, <<>>, <<>>, <<>>, <<>>),
     Batch(<<cB5>>, <<Delete(uB5)>>, <<>>, <<>>, <<>>, <<>>),
     \* every kind of operation in one commit
     Batch(<<cP1, cB1>>, <<>>, <<rSB, rBP>>, <<Delete(rSB.uri)>>,
           <<lB0, lBA>>, <<Delete(lBA.uri)>>)}

(***************************************************************************)
(* History variable evt: n counts handled batches; batch and sc describe    *)
(* the last handleEvent; clean is TRUE while no other write followed it;    *)
(* replay is TRUE when that handleEvent re-applied the batch before it.    *)
(***************************************************************************)
NoEvt == [n |-> 0, batch |-> Batch(<<>>, <<>>, <<>>, <<>>, <<>>, <<>>), sc |-> <<>>,
          clean |-> FALSE, replay |-> FALSE]

(***************************************************************************)
(* SpecIngest: the projector alone.  handleEvent runs to completion; other *)
(* writers of the store act between two events.                            *)
(***************************************************************************)
Flags == [scoped : BOOLEAN, track : BOOLEAN, restrict : BOOLEAN]

\* a row left by an earlier process lifetime: priority set by /api/prioritize,
\* counts cached by updateEngagement
OldRow == [author |-> "A", indexedAt |-> 0, rootUri |-> NoUri, linkUrl |-> NoUri,
           priority |-> <<1>>, likes_count |-> 2, repost_count |-> 1,
           comments_count |-> 0, quote_count |-> 0]

IdleScope ==
    /\ cached = NoCache
    /\ refreshInFlight = <<>>
    /\ refreshes = <<>>
    /\ callers = <<>>

\* no bind accounting in progress
NoBinds == <<>>

\* the components that a specification does not exercise stay idle
JobsIdle ==
    /\ binds = NoBinds
    /\ retention = <<>>
    /\ feed = <<>>
    /\ exp = <<>>
    /\ request_log = <<>>
    /\ request_posts = {}
    /\ timers = <<>>
    /\ sched = <<>>
    /\ study = <<>>

InitIngest ==
    /\ post = [u \in {uA1} |-> OldRow]
    /\ engagement = EmptyTable
    /\ follows = {<<"S", "A">>}
    /\ subscriber \in {{}, {"S"}}
    /\ sub_state = <<>>
    /\ env \in Flags
    /\ now = 0
    /\ IdleScope
    /\ he = <<>>
    /\ JobsIdle
    /\ stream = <<>>
    /\ agg = <<>>
    /\ evt = NoEvt

HandleEvent(ops) ==
    /\ evt.n < MaxEvents
    /\ LET sc == IF NeedsScope THEN <<ScopeNow>> ELSE <<>>
       IN  /\ post' = ExecPostInsert(ExecPostDelete(post, postsToDelete(ops)),
                                     postsToCreate(ops, sc, now))
           /\ engagement' =
                  ExecEngagementInsert(
                      ExecEngagementDelete(engagement, engagementsToDelete(ops)),
                      engagementsToCreate(ops, sc, now))
           /\ cached' = IF NeedsScope THEN CacheAfterScopeNow ELSE cached
           /\ evt' = [n |-> evt.n + 1, batch |-> ops, sc |-> sc, clean |-> TRUE,
                      replay |-> evt.n > 0 /\ evt.clean /\ evt.batch = ops]
    /\ UNCHANGED <<jobVars, follows, subscriber, sub_state, env, now, refreshInFlight,
                   refreshes, callers, he, stream, agg>>

\* POST /api/prioritize with a JSON body: one UPDATE per existing uri
Prioritize(uri, priority) ==
    /\ uri \in DOMAIN post
    /\ post[uri].priority # <<priority>>
    /\ post' = [post EXCEPT ![uri].priority = <<priority>>]
    /\ evt' = [evt EXCEPT !.clean = FALSE]
    /\ UNCHANGED <<jobVars, engagement, follows, subscriber, sub_state, env, now, cached,
                   refreshInFlight, refreshes, callers, he, stream, agg>>

\* the follow refresh stores a new follow edge
FollowsInsert(edge) ==
    /\ edge \notin follows
    /\ follows' = follows \cup {edge}
    /\ UNCHANGED <<jobVars, post, engagement, subscriber, sub_state, env, now, cached,
                   refreshInFlight, refreshes, callers, he, stream, agg, evt>>

Tick ==
    /\ now < MaxClock
    /\ now' = now + 1
    /\ UNCHANGED <<jobVars, post, engagement, follows, subscriber, sub_state, env, cached,
                   refreshInFlight, refreshes, callers, he, stream, agg, evt>>

NextIngest ==
    \/ \E ops \in IngestBatches : HandleEvent(ops)
    \/ \E uri \in {uA1} : Prioritize(uri, 2)
    \/ FollowsInsert(<<"S", "B">>)
    \/ Tick

SpecIngest == InitIngest /\ [][NextIngest]_vars

(***************************************************************************)
(* handleEvent, statement by statement.  Each awaited storage statement is *)
(* one step; a statement whose list is empty is skipped without yielding.  *)
(* he is <<>> while no event is being handled, else <<h>> with h.pc the    *)
(* statement to execute next ("done" once the handler has returned).       *)
(***************************************************************************)
Stages == <<"postDelete", "postInsert", "engagementDelete", "engagementInsert">>

StageList(h, stage) ==
    CASE stage = "postDelete" -> h.postsToDelete
      [] stage = "postInsert" -> h.postsToCreate
      [] stage = "engagementDelete" -> h.engagementsToDelete
      [] stage = "engagementInsert" -> h.engagementsToCreate

\* mutant: the handler returns without executing the engagement insert
FirstStageFromNoInsert(h, k) ==
    LET live == {i \in k..3 : Len(StageList(h, Stages[i])) > 0}
    IN  IF live = {} THEN "done"
        ELSE Stages[CHOOSE i \in live : \A j \in live : i <= j]

\* the first statement at or after position k whose list is non-empty
FirstStageFrom(h, k) ==
    LET live == {i \in k..Len(Stages) : Len(StageList(h, Stages[i])) > 0}
    IN  IF live = {} THEN "done"
        ELSE Stages[CHOOSE i \in live : \A j \in live : i <= j]

StageIndex(stage) == CHOOSE i \in 1..Len(Stages) : Stages[i] = stage

\* the synchronous part of handleEvent after the scope is resolved
BeginHandle(seq, ops, sc, t) ==
    LET h == [seq |-> seq, pc |-> "done",
              postsToDelete |-> postsToDelete(ops),
              postsToCreate |-> postsToCreate(ops, sc, t),
              engagementsToDelete |-> engagementsToDelete(ops),
              engagementsToCreate |-> engagementsToCreate(ops, sc, t)]
    IN  [h EXCEPT !.pc = FirstStageFrom(h, 1)]

\* one awaited statement of handleEvent
HandleEventStep ==
    /\ he # <<>>
    /\ he[1].pc # "done"
    /\ LET h == he[1]
       IN  /\ post' = CASE h.pc = "postDelete" -> ExecPostDelete(post, h.postsToDelete)
                        [] h.pc = "postInsert" -> ExecPostInsert(post, h.postsToCreate)
                        [] OTHER -> post
           /\ engagement' =
                  CASE h.pc = "engagementDelete" ->
                           ExecEngagementDelete(engagement, h.engagementsToDelete)
                    [] h.pc = "engagementInsert" ->
                           ExecEngagementInsert(engagement, h.engagementsToCreate)
                    [] OTHER -> engagement
           /\ he' = << [h EXCEPT !.pc = FirstStageFrom(h, StageIndex(h.pc) + 1)] >>

(***************************************************************************)
(* SpecStream: the commit-stream client (FirehoseSubscriptionBase.run,     *)
(* started by FeedGenerator.start) around handleEvent, with crashes.       *)
(* stream.conn is the subscription; from is the cursor it was opened with  *)
(* (<<>>: the upstream default, the live head); next is the sequence       *)
(* number delivered next; head is the last one the relay has produced.     *)
(* History: written is the last cursor value updateCursor was called with, *)
(* expect its value when the subscription was opened, origin the position  *)
(* at which the client last started from the upstream default.             *)
(***************************************************************************)
StreamBatch(seq) ==
    CASE seq = 1 -> Batch(<<cB5>>, <<Delete(uA1)>>, <<>>, <<>>, <<>>, <<>>)
      [] seq = 2 -> Batch(<<>>, <<>>, <<>>, <<>>, <<lBP>>, <<>>)
      [] seq = 3 -> Batch(<<cB1>>, <<>>, <<rSB>>, <<>>, <<>>, <<>>)
      [] OTHER -> Batch(<<>>, <<>>, <<>>, <<>>,
                        <<SubjectCreate(MkUri("B", LikeColl, ToString(seq)), uB1)>>, <<>>)

\* mutant: a bare UPDATE, which writes nothing when the stream has no row
UpdateCursorBare(row, seq) == IF row = <<>> THEN <<>> ELSE <<seq>>

\* mutant: an insert that keeps the row it finds
UpdateCursorInsertOnly(row, seq) == IF row = <<>> THEN <<seq>> ELSE row

\* updateCursor: INSERT ... ON CONFLICT DO UPDATE on sub_state
UpdateCursor(row, seq) == <<seq>>

\* getCursor: the stored cursor, or none
GetCursor(row) == row

InitStream ==
    /\ post = [u \in {uA1} |-> OldRow]
    /\ engagement = EmptyTable
    /\ follows = {<<"S", "A">>}
    /\ subscriber = {"S"}
    /\ sub_state = <<>>
    /\ env = [scoped |-> FALSE, track |-> FALSE, restrict |-> FALSE]
    /\ now = 0
    /\ IdleScope
    /\ he = <<>>
    /\ JobsIdle
    /\ stream = [conn |-> "down", from |-> <<>>, next |-> 1, head |-> 0,
                 written |-> <<>>, expect |-> <<>>, origin |-> 1]
    /\ agg = <<>>
    /\ evt = NoEvt

\* the relay appends a commit to the stream
Produce ==
    /\ stream.head < MaxSeq
    /\ stream' = [stream EXCEPT !.head = @ + 1]
    /\ UNCHANGED <<jobVars, dbVars, env, now, scopeVars, he, agg, evt>>

\* run(): open the subscription from the stored cursor
Subscribe ==
    /\ stream.conn = "down"
    /\ LET cursor == GetCursor(sub_state)
       IN  stream' = [stream EXCEPT
                        !.conn = "up",
                        !.from = cursor,
                        !.next = IF cursor = <<>> THEN stream.head + 1 ELSE cursor[1] + 1,
                        !.expect = stream.written,
                        !.origin = IF cursor = <<>> THEN stream.head + 1 ELSE @]
    /\ UNCHANGED <<jobVars, dbVars, env, now, scopeVars, he, agg, evt>>

\* the next commit arrives and handleEvent starts on it
Receive ==
    /\ stream.conn = "up"
    /\ he = <<>>
    /\ stream.next <= stream.head
    /\ LET sc == IF NeedsScope THEN <<ScopeNow>> ELSE <<>>
       IN  /\ he' = <<BeginHandle(stream.next, StreamBatch(stream.next), sc, now)>>
           /\ cached' = IF NeedsScope THEN CacheAfterScopeNow ELSE cached
    /\ UNCHANGED <<jobVars, dbVars, env, now, refreshInFlight, refreshes, callers, stream, agg, evt>>

\* handleEvent has returned: persist the cursor of the handled commit
PersistCursor ==
    /\ stream.conn = "up"
    /\ he # <<>>
    /\ he[1].pc = "done"
    /\ sub_state' = UpdateCursor(sub_state, he[1].seq)
    /\ stream' = [stream EXCEPT !.written = <<he[1].seq>>, !.next = he[1].seq + 1]
    /\ he' = <<>>
    /\ UNCHANGED <<jobVars, post, engagement, follows, subscriber, env, now, scopeVars, agg, evt>>

StreamHandleStep ==
    /\ stream.conn = "up"
    /\ HandleEventStep
    /\ UNCHANGED <<jobVars, follows, subscriber, sub_state, env, now, scopeVars, stream, agg, evt>>

\* the subscription errors or closes between two messages; run() re-subscribes
TransportError ==
    /\ stream.conn = "up"
    /\ he = <<>>
    /\ stream' = [stream EXCEPT !.conn = "down"]
    /\ UNCHANGED <<jobVars, dbVars, env, now, scopeVars, he, agg, evt>>

\* the process dies at any point; only the store survives
Crash ==
    /\ stream.conn = "up"
    /\ stream' = [stream EXCEPT !.conn = "down"]
    /\ he' = <<>>
    /\ cached' = NoCache
    /\ UNCHANGED <<jobVars, dbVars, env, now, refreshInFlight, refreshes, callers, agg, evt>>

NextStream ==
    \/ Produce
    \/ Subscribe
    \/ Receive
    \/ StreamHandleStep
    \/ PersistCursor
    \/ TransportError
    \/ Crash

SpecStream == InitStream /\ [][NextStream]_vars

(***************************************************************************)
(* SpecScope: concurrent callers of getIngestionScope (ingestion-scope.ts).*)
(* refreshes is the list of refresh closures started so far; a closure is  *)
(* at "follows" or "subs" while the respective query is outstanding and    *)
(* "resolved" or "rejected" once its promise has settled.  refreshInFlight *)
(* is <<>> (null) or <<i>>, the promise of refreshes[i].  callers[c] is one *)
(* invocation per caller: pc "awaitOwn" is the `await refreshInFlight` of  *)
(* line 99, "awaitShared" the promise returned at line 72.                 *)
(* History: atCall is the set of refreshes with an outstanding query when  *)
(* the invocation began.                                                   *)
(***************************************************************************)
MaxRefreshes == 2

Callers == {"c1", "c2", "c3"}

IdleCaller == [pc |-> "idle", joined |-> 0, atCall |-> {}, result |-> <<>>]

InFlight == {i \in DOMAIN refreshes : refreshes[i].pc \in {"follows", "subs"}}
Settled(i) == refreshes[i].pc \in {"resolved", "rejected"}

\* the value a settled promise delivers to its awaiters
Outcome(r) == IF r.pc = "resolved" THEN <<"ok", r.scope>> ELSE <<"error">>

\* mutant: the pending refresh is not consulted
JoinsInFlightNever(rif) == FALSE

\* `if (refreshInFlight) return refreshInFlight`
JoinsInFlight(rif) == rif # <<>>

InitScope ==
    /\ post = EmptyTable
    /\ engagement = EmptyTable
    /\ follows = {<<"S", "A">>}
    /\ subscriber = {"S"}
    /\ sub_state = <<>>
    /\ env \in {f \in Flags : f.scoped /\ ~f.restrict}
    /\ now = 0
    /\ cached = NoCache
    /\ refreshInFlight = <<>>
    /\ refreshes = <<>>
    /\ callers = [c \in Callers |-> IdleCaller]
    /\ he = <<>>
    /\ JobsIdle
    /\ stream = <<>>
    /\ agg = <<>>
    /\ evt = NoEvt

\* getIngestionScope up to its first await
Call(c) ==
    /\ callers[c].pc \in {"idle", "done"}
    /\ IF CacheFresh(cached, now)
       THEN /\ callers' = [callers EXCEPT ![c] =
                             [pc |-> "done", joined |-> 0, atCall |-> InFlight,
                              result |-> <<"ok", cached.scope>>]]
            /\ UNCHANGED <<refreshInFlight, refreshes>>
       ELSE IF JoinsInFlight(refreshInFlight)
       THEN /\ callers' = [callers EXCEPT ![c] =
                             [pc |-> "awaitShared", joined |-> refreshInFlight[1],
                              atCall |-> InFlight, result |-> <<>>]]
            /\ UNCHANGED <<refreshInFlight, refreshes>>
       ELSE /\ Len(refreshes) < MaxRefreshes
            /\ refreshes' = Append(refreshes,
                                   [pc |-> "follows", followsRows |-> {}, scope |-> <<>>])
            /\ refreshInFlight' = <<Len(refreshes) + 1>>
            /\ callers' = [callers EXCEPT ![c] =
                             [pc |-> "awaitOwn", joined |-> Len(refreshes) + 1,
                              atCall |-> InFlight, result |-> <<>>]]
    /\ UNCHANGED <<jobVars, dbVars, env, now, cached, he, stream, agg, evt>>

\* the follows query answers; the closure goes on to the subscriber query or,
\* when none is needed, stores the scope and resolves
RefreshFollows(i) ==
    /\ i \in DOMAIN refreshes
    /\ refreshes[i].pc = "follows"
    /\ IF LoadsSubscribers
       THEN /\ refreshes' = [refreshes EXCEPT ![i].pc = "subs", ![i].followsRows = follows]
            /\ UNCHANGED cached
       ELSE LET scope == BuildScope(follows, {})
            IN  /\ refreshes' = [refreshes EXCEPT ![i].pc = "resolved", ![i].scope = scope]
                /\ cached' = [valid |-> TRUE, loadedAtMs |-> now, scope |-> scope]
    /\ UNCHANGED <<jobVars, dbVars, env, now, refreshInFlight, callers, he, stream, agg, evt>>

\* the subscriber query answers; the closure stores the scope and resolves
RefreshSubscribers(i) ==
    /\ i \in DOMAIN refreshes
    /\ refreshes[i].pc = "subs"
    /\ LET scope == BuildScope(refreshes[i].followsRows, subscriber)
       IN  /\ refreshes' = [refreshes EXCEPT ![i].pc = "resolved", ![i].scope = scope]
           /\ cached' = [valid |-> TRUE, loadedAtMs |-> now, scope |-> scope]
    /\ UNCHANGED <<jobVars, dbVars, env, now, refreshInFlight, callers, he, stream, agg, evt>>

\* the outstanding query throws; the closure's promise rejects
RefreshFails(i) ==
    /\ i \in DOMAIN refreshes
    /\ refreshes[i].pc \in {"follows", "subs"}
    /\ refreshes' = [refreshes EXCEPT ![i].pc = "rejected"]
    /\ UNCHANGED <<jobVars, dbVars, env, now, cached, refreshInFlight, callers, he, stream, agg, evt>>

\* mutant: the marker is cleared only after a refresh that resolved
ClearedOnSuccessOnly(rif, r) == IF r.pc = "resolved" THEN <<>> ELSE rif

\* `finally { refreshInFlight = null }`, whatever the refresh r delivered
FinallyClears(rif, r) == <<>>

\* a caller's await completes; the caller that started the refresh runs its
\* finally block
Resume(c) ==
    /\ callers[c].pc \in {"awaitOwn", "awaitShared"}
    /\ Settled(callers[c].joined)
    /\ callers' = [callers EXCEPT ![c].pc = "done",
                                  ![c].result = Outcome(refreshes[callers[c].joined])]
    /\ refreshInFlight' = IF callers[c].pc = "awaitOwn"
                          THEN FinallyClears(refreshInFlight, refreshes[callers[c].joined])
                          ELSE refreshInFlight
    /\ UNCHANGED <<jobVars, dbVars, env, now, cached, refreshes, he, stream, agg, evt>>

NextScope ==
    \/ \E c \in Callers : Call(c)
    \/ \E i \in 1..MaxRefreshes : RefreshFollows(i)
    \/ \E i \in 1..MaxRefreshes : RefreshSubscribers(i)
    \/ \E i \in 1..MaxRefreshes : RefreshFails(i)
    \/ \E c \in Callers : Resume(c)
    \/ FollowsInsert(<<"S", "B">>)
    \/ Tick

SpecScope == InitScope /\ [][NextScope]_vars

\* Fairness: the continuation of an await on a settled promise runs.
SpecScopeFair == SpecScope /\ \A c \in Callers : WF_vars(Resume(c))

(***************************************************************************)
(* updateEngagement (util/engagement-updater.ts).                          *)
(* agg[s] is the invocation running in scheduler slot s, or IdleRun; with  *)
(* two slots an invocation started by one interval tick overlaps the one   *)
(* started by the previous tick.  Every awaited statement is one step.     *)
(***************************************************************************)
\* ENGAGEMENT_TIME_HOURS, default 72 (scaled to ticks)
engagementTimeHours == 1
\* 50000 in the source, scaled
IN_CLAUSE_CHUNK_SIZE == 2
\* 5000 in the source, scaled
batchSize == 2

IdleRun == [pc |-> "idle"]

Min(a, b) == IF a < b THEN a ELSE b
Max(a, b) == IF a > b THEN a ELSE b
MaxOf(S) == CHOOSE x \in S : \A y \in S : y <= x

\* mutant: the slice stops one element early
ChunkOfShort(items, i, size) == SubSeq(items, i + 1, Min(i + size, Len(items)) - 1)

\* items.slice(i, i + size)
ChunkOf(items, i, size) == SubSeq(items, i + 1, Min(i + size, Len(items)))

\* the orders in which a SELECT without ORDER BY may return the rows S
Orders(S) ==
    {s \in [1..Cardinality(S) -> S] : \A i, j \in 1..Cardinality(S) : i # j => s[i] # s[j]}

\* mutant: the configured publishers' posts are not selected
RecentPostUrisFollowedOnly(timeLimit, accounts) ==
    {u \in DOMAIN post : /\ post[u].indexedAt >= timeLimit
                         /\ post[u].author \in accounts \ NewsbotDids}

\* mutant: the author condition is dropped
RecentPostUrisAnyAuthor(timeLimit, accounts) ==
    {u \in DOMAIN post : post[u].indexedAt >= timeLimit}

\* SELECT uri, author FROM post WHERE indexedAt >= timeLimit AND author IN (accounts)
RecentPostUris(timeLimit, accounts) ==
    {u \in DOMAIN post : post[u].indexedAt >= timeLimit /\ post[u].author \in accounts}

\* mutant: the author condition of the publisher queries is dropped
EngagementCountQueryAnyAuthor(chunk, type, authors) ==
    LET n(u) == Cardinality({e \in DOMAIN engagement :
                                /\ engagement[e].subjectUri = u
                                /\ engagement[e].type = type})
        rows == [i \in 1..Len(chunk) |-> [uri |-> chunk[i], count |-> n(chunk[i])]]
        present(r) == r.count > 0
    IN  SelectSeq(rows, present)

\* SELECT subjectUri AS uri, count(uri) FROM engagement WHERE subjectUri IN (chunk)
\* [AND author IN (authors)] AND type = t GROUP BY subjectUri;  authors is <<>> when
\* the query has no author condition, else <<set>>
EngagementCountQuery(chunk, type, authors) ==
    LET n(u) == Cardinality({e \in DOMAIN engagement :
                                /\ engagement[e].subjectUri = u
                                /\ engagement[e].type = type
                                /\ authors # <<>> => engagement[e].author \in authors[1]})
        rows == [i \in 1..Len(chunk) |-> [uri |-> chunk[i], count |-> n(chunk[i])]]
        present(r) == r.count > 0
    IN  SelectSeq(rows, present)

\* SELECT rootUri AS uri, count(uri) FROM post WHERE rootUri IN (chunk)
\* [AND author IN (authors)] AND rootUri != '' GROUP BY rootUri
CommentCountQuery(chunk, authors) ==
    LET n(u) == Cardinality({c \in DOMAIN post :
                                /\ post[c].rootUri = u
                                /\ post[c].rootUri # NoUri
                                /\ authors # <<>> => post[c].author \in authors[1]})
        rows == [i \in 1..Len(chunk) |-> [uri |-> chunk[i], count |-> n(chunk[i])]]
        present(r) == r.count > 0
    IN  SelectSeq(rows, present)

\* new Map(rows.map(r => [r.uri, Number(r.count)])).get(uri) || 0
MapGetOrZero(rows, uri) ==
    LET idx == {i \in DOMAIN rows : rows[i].uri = uri}
    IN  IF idx = {} THEN 0 ELSE rows[MaxOf(idx)].count

\* mutant: a post without a result row keeps its stored counts
UpdatedRowKeep(row, uri, likes, reposts, comments) ==
    LET has(rows) == \E i \in DOMAIN rows : rows[i].uri = uri
    IN  [row EXCEPT !.likes_count = IF has(likes) THEN MapGetOrZero(likes, uri) ELSE @,
                    !.repost_count = IF has(reposts) THEN MapGetOrZero(reposts, uri) ELSE @,
                    !.comments_count = IF has(comments) THEN MapGetOrZero(comments, uri) ELSE @]

\* the SET clause of the bulk UPDATE for one uri of the batch
UpdatedRow(row, uri, likes, reposts, comments) ==
    [row EXCEPT !.likes_count = MapGetOrZero(likes, uri),
                !.repost_count = MapGetOrZero(reposts, uri),
                !.comments_count = MapGetOrZero(comments, uri)]

\* mutant: an upsert, which stores a row for a uri of the batch that has none
UpsertStatement(table, batchUris, likes, reposts, comments) ==
    [u \in DOMAIN table \cup Range(batchUris) |->
        IF u \in Range(batchUris)
        THEN UpdatedRow(IF u \in DOMAIN table THEN table[u] ELSE OldRow,
                        u, likes, reposts, comments)
        ELSE table[u]]

\* UPDATE post SET ... WHERE uri IN (batchUris)
UpdateStatement(table, batchUris, likes, reposts, comments) ==
    [u \in DOMAIN table |->
        IF u \in Range(batchUris)
        THEN UpdatedRow(table[u], u, likes, reposts, comments)
        ELSE table[u]]

\* the split of recentPosts (rows of uri and author) into publisher and other posts
UrisOfRows(rows) == [i \in DOMAIN rows |-> rows[i].uri]
PostUris(r) == UrisOfRows(r.recentPosts)
PublisherPostUris(r) ==
    LET isPublisher(p) == p.author \in NewsbotDids
    IN  UrisOfRows(SelectSeq(r.recentPosts, isPublisher))
OtherPostUris(r) ==
    LET isOther(p) == p.author \notin NewsbotDids
    IN  UrisOfRows(SelectSeq(r.recentPosts, isOther))

\* the statements after the candidate read, in program order; a statement group
\* whose condition fails is skipped
Phases == <<"otherLikes", "publisherLikes", "otherReposts", "publisherReposts",
            "otherComments", "publisherComments", "update">>

PhaseItems(r, phase) ==
    CASE phase \in {"otherLikes", "otherReposts", "otherComments"} -> OtherPostUris(r)
      [] phase \in {"publisherLikes", "publisherReposts", "publisherComments"} ->
             IF r.subscriberDids # {} THEN PublisherPostUris(r) ELSE <<>>
      [] OTHER -> PostUris(r)

PhaseSize(phase) == IF phase = "update" THEN batchSize ELSE IN_CLAUSE_CHUNK_SIZE

PhaseIndex(phase) == CHOOSE k \in DOMAIN Phases : Phases[k] = phase

FirstPhaseFrom(r, k) ==
    LET live == {j \in k..Len(Phases) : Len(PhaseItems(r, Phases[j])) > 0}
    IN  IF live = {} THEN "done" ELSE Phases[CHOOSE j \in live : \A x \in live : j <= x]

Active(s) == s \in DOMAIN agg /\ agg[s] # IdleRun

Slots == DOMAIN agg

\* History fields of a run: seen holds the engagement rows (k = type) and comment
\* rows (k = 0) present for the queried uris when each count query ran; evt0 is
\* the number of commits handled when the run began, evtU when it issued its
\* first UPDATE; written holds the uris named by the UPDATE statements issued.
NewRun(t, n) ==
    [pc |-> "subscribers", i |-> 0, timeLimit |-> t - engagementTimeHours,
     subscriberDids |-> {}, accountsToCheck |-> {}, recentPosts |-> <<>>,
     likes |-> <<>>, reposts |-> <<>>, comments |-> <<>>,
     seen |-> {}, evt0 |-> n, evtU |-> n, written |-> {}]

\* an interval tick (or the immediate first call) invokes updateEngagement, which
\* runs up to its first await; the invocation takes the lowest free slot
StartRun(s) ==
    /\ s \in Slots
    /\ ~Active(s)
    /\ \A t \in Slots : t < s => Active(t)
    /\ agg' = [agg EXCEPT ![s] = NewRun(now, evt.n)]
    /\ UNCHANGED <<jobVars, dbVars, env, now, scopeVars, he, stream, evt>>

ReadSubscribers(s) ==
    /\ Active(s)
    /\ agg[s].pc = "subscribers"
    /\ agg' = [agg EXCEPT ![s].subscriberDids = subscriber, ![s].pc = "follows"]
    /\ UNCHANGED <<jobVars, dbVars, env, now, scopeVars, he, stream, evt>>

\* the follows read; with no followed account the run returns
ReadFollows(s) ==
    /\ Active(s)
    /\ agg[s].pc = "follows"
    /\ LET followsList == {f[2] : f \in follows}
       IN  agg' = IF followsList = {}
                  THEN [agg EXCEPT ![s] = IdleRun]
                  ELSE [agg EXCEPT ![s].accountsToCheck = followsList \cup NewsbotDids,
                                   ![s].pc = "posts"]
    /\ UNCHANGED <<jobVars, dbVars, env, now, scopeVars, he, stream, evt>>

\* the candidate read; with no recent post the run returns
ReadPosts(s) ==
    /\ Active(s)
    /\ agg[s].pc = "posts"
    /\ \E order \in Orders(RecentPostUris(agg[s].timeLimit, agg[s].accountsToCheck)) :
          LET rows == [i \in DOMAIN order |->
                          [uri |-> order[i], author |-> post[order[i]].author]]
              r == [agg[s] EXCEPT !.recentPosts = rows]
          IN  agg' = IF Len(rows) = 0
                     THEN [agg EXCEPT ![s] = IdleRun]
                     ELSE [agg EXCEPT ![s] = [r EXCEPT !.pc = FirstPhaseFrom(r, 1)]]
    /\ UNCHANGED <<jobVars, dbVars, env, now, scopeVars, he, stream, evt>>

\* the rows of the store a count query for `chunk` ranges over
SeenBy(chunk, k) ==
    IF k = 0
    THEN {[k |-> 0, u |-> post[c].rootUri, e |-> c, a |-> post[c].author] :
             c \in {c \in DOMAIN post : post[c].rootUri \in Range(chunk)}}
    ELSE {[k |-> k, u |-> engagement[e].subjectUri, e |-> e, a |-> engagement[e].author] :
             e \in {e \in DOMAIN engagement :
                        engagement[e].subjectUri \in Range(chunk) /\ engagement[e].type = k}}

\* one iteration of execInChunks: one count query over one chunk
CountChunk(s) ==
    /\ Active(s)
    /\ agg[s].pc \in Range(Phases) \ {"update"}
    /\ LET r == agg[s]
           items == PhaseItems(r, r.pc)
           chunk == ChunkOf(items, r.i, IN_CLAUSE_CHUNK_SIZE)
           authors == IF r.pc \in {"publisherLikes", "publisherReposts", "publisherComments"}
                      THEN <<r.subscriberDids>> ELSE <<>>
           k == CASE r.pc \in {"otherLikes", "publisherLikes"} -> 2
                  [] r.pc \in {"otherReposts", "publisherReposts"} -> 1
                  [] OTHER -> 0
           rows == IF k = 0 THEN CommentCountQuery(chunk, authors)
                   ELSE EngagementCountQuery(chunk, k, authors)
           last == r.i + IN_CLAUSE_CHUNK_SIZE >= Len(items)
       IN  agg' = [agg EXCEPT ![s] =
                     [r EXCEPT !.likes = IF k = 2 THEN @ \o rows ELSE @,
                               !.reposts = IF k = 1 THEN @ \o rows ELSE @,
                               !.comments = IF k = 0 THEN @ \o rows ELSE @,
                               !.seen = @ \cup SeenBy(chunk, k),
                               !.i = IF last THEN 0 ELSE r.i + IN_CLAUSE_CHUNK_SIZE,
                               !.pc = IF last THEN FirstPhaseFrom(r, PhaseIndex(r.pc) + 1)
                                      ELSE r.pc]]
    /\ UNCHANGED <<jobVars, dbVars, env, now, scopeVars, he, stream, evt>>

\* one bulk UPDATE over one batch; after the last batch the run returns
UpdateBatch(s) ==
    /\ Active(s)
    /\ agg[s].pc = "update"
    /\ LET r == agg[s]
           batchUris == ChunkOf(PostUris(r), r.i, batchSize)
       IN  /\ post' = UpdateStatement(post, batchUris, r.likes, r.reposts, r.comments)
           /\ agg' = IF r.i + batchSize >= Len(PostUris(r))
                     THEN [agg EXCEPT ![s] = IdleRun]
                     ELSE [agg EXCEPT ![s].i = r.i + batchSize,
                                      ![s].evtU = IF r.i = 0 THEN evt.n ELSE @,
                                      ![s].written = @ \cup Range(batchUris)]
    /\ UNCHANGED <<jobVars, engagement, follows, subscriber, sub_state, env, now, scopeVars,
                   he, stream, evt>>

lSA == SubjectCreate(MkUri("S", LikeColl, "a"), uA1)
lAA == SubjectCreate(MkUri("A", LikeColl, "a"), uA1)

MaxAggEvents == 1

\* commits the projector handles while the aggregator runs
AggBatches ==
    {Batch(<<>>, <<>>, <<>>, <<>>, <<>>, <<Delete(lBA.uri)>>),
     Batch(<<cB3>>, <<>>, <<rBP, rSB>>, <<>>, <<>>, <<>>),
     Batch(<<cA1>>, <<Delete(uA1)>>, <<>>, <<>>, <<>>, <<>>)}

\* rows stored by earlier commits; the cached counts are those of an earlier run
StoredPost(create, likes, reposts) ==
    [PostRow([uri |-> create.uri, author |-> create.author, indexedAt |-> 0,
              rootUri |-> create.replyRoot, linkUrl |-> NoUri])
        EXCEPT !.likes_count = likes, !.repost_count = reposts]
StoredLike(create) ==
    EngagementRow([uri |-> create.uri, subjectUri |-> create.subject, type |-> 2,
                   indexedAt |-> 0, author |-> create.author])

\* the type-3 row handleEvent stored for B's post 1 quoting A's post: it has the
\* uri of the quoting post
StoredQuote ==
    EngagementRow([uri |-> uB1, subjectUri |-> uA1, type |-> 3, indexedAt |-> 0,
                   author |-> "B"])

AggPosts == {cA1, cB1, cB2, cP1, cS2}
AggLikes == {lBA, lSA, lAA, lBP, lSP}

InitAgg ==
    /\ post = [u \in {c.uri : c \in AggPosts} |->
                  LET c == CHOOSE c \in AggPosts : c.uri = u
                  IN  CASE u = uA1 -> StoredPost(c, 2, 1)
                        [] u = uB1 -> StoredPost(c, 1, 0)
                        [] u = uP1 -> StoredPost(c, 5, 2)
                        [] OTHER -> StoredPost(c, 0, 0)]
    /\ engagement = [e \in {l.uri : l \in AggLikes} \cup {uB1} |->
                        IF e = uB1 THEN StoredQuote
                        ELSE StoredLike(CHOOSE l \in AggLikes : l.uri = e)]
    /\ follows \in {{}, {<<"S", "A">>, <<"S", "B">>}}
    /\ subscriber \in {{}, {"S"}}
    /\ sub_state = <<>>
    /\ env = [scoped |-> FALSE, track |-> FALSE, restrict |-> FALSE]
    /\ now = 0
    /\ IdleScope
    /\ he = <<>>
    /\ JobsIdle
    /\ stream = <<>>
    /\ agg = [s \in {1} |-> IdleRun]
    /\ evt = NoEvt

\* the projector handles a commit between two statements of the aggregator
AggHandleEvent(ops) ==
    /\ evt.n < MaxAggEvents
    /\ HandleEvent(ops)

NextAgg ==
    \/ \E s \in Slots : StartRun(s)
    \/ \E s \in Slots : ReadSubscribers(s)
    \/ \E s \in Slots : ReadFollows(s)
    \/ \E s \in Slots : ReadPosts(s)
    \/ \E s \in Slots : CountChunk(s)
    \/ \E s \in Slots : UpdateBatch(s)
    \/ \E ops \in AggBatches : AggHandleEvent(ops)
    \/ Tick

SpecAgg == InitAgg /\ [][NextAgg]_vars

(***************************************************************************)
(* SpecAggFair: the aggregation scheduler (setupEngagmentUpdateScheduler)  *)
(* keeps invoking updateEngagement while earlier invocations may still be  *)
(* running (two slots); the projector handles a bounded number of commits. *)
(* Fairness: the interval timer keeps firing, and every awaited statement  *)
(* of a run completes.                                                     *)
(***************************************************************************)
FairPosts == {cA1, cP1}
FairLikes == {lBA, lBP, lSP}

InitAggFair ==
    /\ post = [u \in {c.uri : c \in FairPosts} |->
                  StoredPost(CHOOSE c \in FairPosts : c.uri = u, 2, 1)]
    /\ engagement = [e \in {l.uri : l \in FairLikes} |->
                        StoredLike(CHOOSE l \in FairLikes : l.uri = e)]
    /\ follows = {<<"S", "A">>}
    /\ subscriber = {"S"}
    /\ sub_state = <<>>
    /\ env = [scoped |-> FALSE, track |-> FALSE, restrict |-> FALSE]
    /\ now = 0
    /\ IdleScope
    /\ he = <<>>
    /\ JobsIdle
    /\ stream = <<>>
    /\ agg = [s \in {1, 2} |-> IdleRun]
    /\ evt = NoEvt

RunStep(s) ==
    \/ ReadSubscribers(s)
    \/ ReadFollows(s)
    \/ ReadPosts(s)
    \/ CountChunk(s)
    \/ UpdateBatch(s)

SpecAggFair ==
    /\ InitAggFair
    /\ [][NextAgg]_vars
    /\ \A s \in {1, 2} : WF_vars(StartRun(s)) /\ WF_vars(RunStep(s))

(***************************************************************************)
(* Properties of the projector (SpecIngest).                               *)
(***************************************************************************)
\* this step is a handleEvent
Handled == evt'.n = evt.n + 1

\* this step re-applies the batch of the previous handleEvent, no other
\* write of the post or engagement table having happened in between
Replayed == Handled /\ evt'.replay

\* the uris a batch both deletes and creates, per table
PostRecreated(ops) ==
    Range(postsToDelete(ops)) \cap {ops.posts.creates[i].uri : i \in DOMAIN ops.posts.creates}
EngagementRecreated(ops) ==
    Range(engagementsToDelete(ops))
        \cap ({ops.posts.creates[i].uri : i \in DOMAIN ops.posts.creates}
              \cup {ops.likes.creates[i].uri : i \in DOMAIN ops.likes.creates}
              \cup {ops.reposts.creates[i].uri : i \in DOMAIN ops.reposts.creates})

SameExceptIndexedAt(t1, t2, uris) ==
    /\ DOMAIN t1 = DOMAIN t2
    /\ \A u \in DOMAIN t1 :
          IF u \in uris
          THEN [t1[u] EXCEPT !.indexedAt = 0] = [t2[u] EXCEPT !.indexedAt = 0]
          ELSE t1[u] = t2[u]

\* C1 as claimed: replaying a batch right after applying it leaves the post and
\* engagement tables exactly as the first application left them.
C1_ReplayIdentical ==
    [][Replayed => (post' = post /\ engagement' = engagement)]_vars

\* What a replay does preserve: when it resolves the same ingestion scope as the
\* first application, the tables after it equal the tables after the first
\* application, except that a row whose uri the batch both deletes and creates is
\* re-inserted and may carry the indexedAt of the replay; all other rows, with their
\* cached counts and priority, are untouched.
C1_ReplayIdempotent ==
    [][(Replayed /\ evt'.sc = evt.sc) =>
          /\ SameExceptIndexedAt(post, post', PostRecreated(evt'.batch))
          /\ SameExceptIndexedAt(engagement, engagement', EngagementRecreated(evt'.batch))]_vars

\* a replay of the commit that deletes and re-creates A's post has been applied
C1_Witness ==
    /\ evt.replay
    /\ evt.batch = Batch(<<cA1>>, <<Delete(uA1)>>, <<>>, <<>>, <<>>, <<>>)
    /\ uA1 \in DOMAIN post /\ post[uA1].priority = <<>>

\* The gating rules as the specification words them, over the scope resolved for
\* the event (evt.sc) and the configured flags.
ClaimAuthor(uri) == IF Len(uri) >= 4 THEN uri[3] ELSE ""
ClaimIsPost(uri) == Len(uri) >= 5 /\ uri[4] = PostColl
Allowlist(sc) == IF sc = <<>> THEN {} ELSE sc[1].allowlistedAuthorDids
Publishers(sc) == IF sc = <<>> THEN {} ELSE sc[1].publisherDids
Subscribers(sc) == IF sc = <<>> THEN {} ELSE sc[1].subscriberDids

ClaimStorePost(c, sc) ==
    \/ ~env.scoped
    \/ c.author \in Allowlist(sc)
    \/ ClaimAuthor(c.replyRoot) \in Allowlist(sc)
    \/ ClaimAuthor(c.replyParent) \in Allowlist(sc)
    \/ env.track /\ c.author \in Subscribers(sc)

ClaimStoreLike(c, sc) ==
    LET narrowed == /\ env.restrict
                    /\ ClaimAuthor(c.subject) \in Publishers(sc)
                    /\ Subscribers(sc) # {}
    IN  /\ ClaimIsPost(c.subject)
        /\ \/ ~env.scoped
           \/ /\ ClaimAuthor(c.subject) \in Allowlist(sc)
              /\ narrowed => c.author \in Subscribers(sc)
           \/ env.track /\ c.author \in Subscribers(sc)

ClaimStoreQuote(c, sc) ==
    /\ c.embed.kind \in {"record", "recordWithMedia"}
    /\ ClaimIsPost(c.embed.uri)
    /\ \/ ~env.scoped
       \/ env.track /\ c.author \in Subscribers(sc)
       \/ ClaimAuthor(c.embed.uri) \in Publishers(sc)

\* the uris still present after the batch's deletes (an insert of one of them
\* is a conflict and stores nothing new)
PostsKept(ops) == DOMAIN post \ Range(postsToDelete(ops))
EngagementsKept(ops) == DOMAIN engagement \ Range(engagementsToDelete(ops))

\* C4: a created post is stored iff scoping is off, or its author, its reply
\* root's author or its reply parent's author is allowlisted, or tracking is on and
\* its author is a subscriber.
C4_StorePostIff ==
    [][Handled =>
          \A i \in DOMAIN evt'.batch.posts.creates :
              LET c == evt'.batch.posts.creates[i]
              IN  c.uri \notin PostsKept(evt'.batch) =>
                    /\ (c.uri \in DOMAIN post') <=> ClaimStorePost(c, evt'.sc)
                    /\ c.uri \in DOMAIN post' =>
                          /\ post'[c.uri].author = c.author
                          /\ post'[c.uri].rootUri = c.replyRoot]_vars

\* with allowlist {A, P} and scoping on, B's reply to A's post has been stored
C4_Witness ==
    /\ env.scoped /\ ~env.track
    /\ evt.n > 0 /\ evt.batch = Batch(<<cB2>>, <<>>, <<>>, <<>>, <<>>, <<>>)
    /\ "B" \notin Allowlist(evt.sc)
    /\ uB2 \in DOMAIN post /\ uB1 \notin DOMAIN post

\* C5: a like or repost is stored iff its subject is a post uri and scoping is off,
\* or the subject's author is allowlisted (narrowed to subscriber actors when the
\* restriction flag is on, the subject's author is a publisher and subscribers
\* exist), or tracking is on and the actor is a subscriber.
C5_StoreLikeRepostIff ==
    [][Handled =>
          \A kind \in {"likes", "reposts"} :
              \A i \in DOMAIN evt'.batch[kind].creates :
                  LET c == evt'.batch[kind].creates[i]
                  IN  c.uri \notin EngagementsKept(evt'.batch) =>
                        /\ (c.uri \in DOMAIN engagement') <=> ClaimStoreLike(c, evt'.sc)
                        /\ c.uri \in DOMAIN engagement' =>
                              /\ engagement'[c.uri].type = (IF kind = "likes" THEN 2 ELSE 1)
                              /\ engagement'[c.uri].subjectUri = c.subject
                              /\ engagement'[c.uri].author = c.author]_vars

\* the narrowed case has acted: a subscriber's like of a publisher post is stored
\* under the restriction while subscribers exist
C5_Witness ==
    /\ env.scoped /\ env.restrict /\ ~env.track
    /\ evt.n > 0 /\ Subscribers(evt.sc) # {}
    /\ lSP.uri \in DOMAIN engagement /\ lBP.uri \notin DOMAIN engagement
    /\ evt.batch = Batch(<<>>, <<>>, <<>>, <<>>, <<lSP>>, <<>>)

\* C6: a quote event (type 3, uri of the quoting post, subject the quoted post) is
\* stored iff the quoted uri is a post uri and scoping is off, or tracking is on and
\* the quoting author is a subscriber, or the quoted author is a publisher.
C6_StoreQuoteIff ==
    [][Handled =>
          \A i \in DOMAIN evt'.batch.posts.creates :
              LET c == evt'.batch.posts.creates[i]
              IN  c.uri \notin EngagementsKept(evt'.batch) =>
                    /\ (c.uri \in DOMAIN engagement') <=> ClaimStoreQuote(c, evt'.sc)
                    /\ c.uri \in DOMAIN engagement' =>
                          /\ engagement'[c.uri].type = 3
                          /\ engagement'[c.uri].subjectUri = c.embed.uri
                          /\ engagement'[c.uri].author = c.author]_vars

\* under scoping a quote of allowlisted, non-publisher A was handled and not stored
C6_Witness ==
    /\ env.scoped
    /\ evt.n > 0 /\ evt.batch = Batch(<<cB4>>, <<>>, <<>>, <<>>, <<>>, <<>>)
    /\ "A" \in Allowlist(evt.sc) /\ "A" \notin Publishers(evt.sc)
    /\ uB4 \in DOMAIN post /\ uB4 \notin DOMAIN engagement

(***************************************************************************)
(* Properties of the stream client (SpecStream).                           *)
(***************************************************************************)
\* C2: every subscription is opened from the most recently persisted cursor, and
\* delivery resumes right after it; the upstream default is used only when no
\* cursor has ever been persisted.
C2_ResumeFromPersistedCursor ==
    stream.conn = "up" =>
        /\ stream.from = stream.expect
        /\ stream.expect # <<>> => stream.next > stream.expect[1]
        /\ (stream.expect # <<>> /\ he = <<>> /\ sub_state = stream.expect)
              => stream.next = stream.expect[1] + 1

\* the client has re-subscribed after a cursor was persisted and a crash or
\* transport error closed the stream
C2_Witness ==
    /\ stream.conn = "up"
    /\ stream.from = <<1>>
    /\ sub_state = <<1>>
    /\ stream.next = 2 /\ stream.head >= 2

\* the storage effects of a batch are in place
EffectsApplied(ops) ==
    /\ \A i \in DOMAIN ops.posts.creates :
          /\ ops.posts.creates[i].uri \in DOMAIN post
          /\ getQuotedRecord(ops.posts.creates[i].embed) # NoUri
                => ops.posts.creates[i].uri \in DOMAIN engagement
    /\ \A i \in DOMAIN ops.likes.creates : ops.likes.creates[i].uri \in DOMAIN engagement
    /\ \A i \in DOMAIN ops.reposts.creates : ops.reposts.creates[i].uri \in DOMAIN engagement
    /\ \A i \in DOMAIN ops.posts.deletes :
          ops.posts.deletes[i].uri \in PostRecreated(ops)
             \/ ops.posts.deletes[i].uri \notin DOMAIN post

\* C3: the cursor is persisted only after the batch's statements completed: every
\* commit of the current consumption (from where the client last started at the
\* upstream default) up to the persisted cursor has its storage effects applied.
C3_CursorAfterEffects ==
    sub_state # <<>> =>
        \A seq \in stream.origin..sub_state[1] : EffectsApplied(StreamBatch(seq))

\* the cursor of the four-statement commit 1 is persisted and the process crashed
\* while commit 2 was being handled
C3_Witness ==
    /\ sub_state = <<1>>
    /\ stream.origin = 1
    /\ stream.conn = "down"
    /\ stream.head >= 2
    /\ uB5 \in DOMAIN engagement /\ uA1 \notin DOMAIN post

(***************************************************************************)
(* Properties of the scope resolver (SpecScope).                           *)
(***************************************************************************)
\* C7: at most one refresh has a query outstanding at any time (so at most one
\* follows query and at most one subscriber query), a caller that finds the cache
\* missing or expired while a refresh is outstanding awaits that refresh and starts
\* none, and every such caller receives the outcome of the refresh it awaited.
C7_SingleFlight ==
    /\ Cardinality(InFlight) <= 1
    /\ \A c \in Callers :
          callers[c].joined # 0 =>
             /\ callers[c].atCall # {} => callers[c].joined \in callers[c].atCall
             /\ callers[c].pc = "done" =>
                   /\ Settled(callers[c].joined)
                   /\ callers[c].result = Outcome(refreshes[callers[c].joined])
    /\ \A c, d \in Callers :
          (callers[c].pc = "awaitOwn" /\ callers[d].pc = "awaitOwn") => c = d

\* two callers missed the cache during one refresh, one of them while its query
\* was outstanding, and both received the scope that refresh loaded
C7_Witness ==
    \E c, d \in Callers :
        /\ c # d
        /\ callers[c].pc = "done" /\ callers[d].pc = "done"
        /\ callers[c].joined = 1 /\ callers[d].joined = 1
        /\ callers[d].atCall = {1}
        /\ callers[c].result = callers[d].result
        /\ callers[c].result[1] = "ok"
        /\ Len(refreshes) = 1

(***************************************************************************)
(* Properties of the aggregator (SpecAgg).                                 *)
(***************************************************************************)
\* the run in slot s executes its last bulk UPDATE and returns
Completes(s) == Active(s) /\ agg[s].pc = "update" /\ agg'[s] = IdleRun
\* the run in slot s executes a bulk UPDATE
Updates(s) == Active(s) /\ agg[s].pc = "update" /\ agg'[s] # agg[s]

CachedCounts(row) ==
    [likes |-> row.likes_count, reposts |-> row.repost_count, comments |-> row.comments_count]

\* the aggregation rule applied to a set of event rows: a publisher-authored post
\* counts the rows whose actor is one of `subs`, any other post counts all rows
RuleCount(rows, k, u, subs) ==
    Cardinality({x \in rows : /\ x.k = k
                              /\ x.u = u
                              /\ ClaimAuthor(u) \in NewsbotDids => x.a \in subs})

\* the counts derived from the rows the run read
DerivedCounts(r, u) ==
    [likes |-> RuleCount(r.seen, 2, u, r.subscriberDids),
     reposts |-> RuleCount(r.seen, 1, u, r.subscriberDids),
     comments |-> RuleCount(r.seen, 0, u, r.subscriberDids)]

\* C8 as claimed: when a run has completed, every candidate post still stored has
\* the counts derived from the rows that run read.
C8_CountsAfterRun ==
    [][\A s \in Slots :
          Completes(s) =>
             \A u \in Range(PostUris(agg[s])) \cap DOMAIN post' :
                 CachedCounts(post'[u]) = DerivedCounts(agg[s], u)]_vars

\* the uris of the batch the run in slot s updates next
NextBatch(s) == Range(ChunkOf(PostUris(agg[s]), agg[s].i, batchSize))

\* the number of commits handled when the run in slot s issued its first UPDATE
FirstUpdateAt(s) == IF agg[s].i = 0 THEN evt.n ELSE agg[s].evtU

\* C8 (amended): every bulk UPDATE of a run sets the cached like, repost and comment
\* counts of each stored candidate of its batch to the counts derived from the rows
\* that run read, whatever was stored before (3 like rows and no repost row give
\* 3 and 0, no row gives 0; for a publisher's post only subscribers' rows count);
\* and when no commit was handled between the run's first and last UPDATE, every
\* stored candidate has these counts when the run returns.
C8_RunWritesDerivedCounts ==
    [][\A s \in Slots :
          /\ Updates(s) =>
                \A u \in NextBatch(s) \cap DOMAIN post :
                    CachedCounts(post'[u]) = DerivedCounts(agg[s], u)
          /\ (Completes(s) /\ evt.n = FirstUpdateAt(s)) =>
                \A u \in Range(PostUris(agg[s])) \cap DOMAIN post' :
                    CachedCounts(post'[u]) = DerivedCounts(agg[s], u)]_vars

\* a run has completed over the stored rows: A's post, cached as 2 likes and 1
\* repost, has its 3 likes, 0 reposts and 1 comment, and B's post without events is
\* back at 0
C8_Witness ==
    /\ ~Active(1)
    /\ evt.n = 0
    /\ CachedCounts(post[uA1]) = [likes |-> 3, reposts |-> 0, comments |-> 1]
    /\ CachedCounts(post[uB1]) = [likes |-> 0, reposts |-> 0, comments |-> 0]
    /\ post[uP1].repost_count = 0

\* the counts one unchunked query per kind would return for the run's candidates
UnchunkedCounts(r, k) ==
    LET query(uris, authors) == IF k = 0 THEN CommentCountQuery(uris, authors)
                                ELSE EngagementCountQuery(uris, k, authors)
    IN  query(OtherPostUris(r), <<>>)
          \o (IF r.subscriberDids # {} THEN query(PublisherPostUris(r), <<r.subscriberDids>>)
              ELSE <<>>)

\* the post table one unchunked UPDATE over all candidates would leave
UnchunkedUpdate(r) ==
    UpdateStatement(post, PostUris(r), UnchunkedCounts(r, 2), UnchunkedCounts(r, 1),
                    UnchunkedCounts(r, 0))

\* C10: when no commit is handled during a run, the post table after its chunked
\* count queries and batched UPDATEs is the table one unchunked count per kind and
\* one unchunked UPDATE over all its candidates would leave: no candidate is
\* skipped, counted twice or left un-updated at a boundary.
C10_ChunkedEqualsUnchunked ==
    [][\A s \in Slots :
          (Completes(s) /\ evt.n = agg[s].evt0) => post' = UnchunkedUpdate(agg[s])]_vars

\* three non-publisher candidates were counted in chunks of two and one, and the
\* first of two UPDATE batches over the four candidates has been executed
C10_Witness ==
    /\ Active(1)
    /\ agg[1].pc = "update" /\ agg[1].i = batchSize
    /\ Len(OtherPostUris(agg[1])) = IN_CLAUSE_CHUNK_SIZE + 1
    /\ Len(PostUris(agg[1])) = 2 * batchSize
    /\ agg[1].subscriberDids # {}
    /\ evt.n = agg[1].evt0

(***************************************************************************)
(* Properties of the aggregation scheduler (SpecAggFair).                  *)
(***************************************************************************)
\* the posts a run started now would select
CandidatesNow ==
    {u \in DOMAIN post :
        /\ follows # {}
        /\ post[u].indexedAt >= now - engagementTimeHours
        /\ \/ post[u].author \in NewsbotDids
           \/ \E f \in follows : f[2] = post[u].author}

\* the counts the aggregation rule gives over the rows stored now
CurrentCounts(u) ==
    LET rows == SeenBy(<<u>>, 0) \cup SeenBy(<<u>>, 1) \cup SeenBy(<<u>>, 2)
    IN  [likes |-> RuleCount(rows, 2, u, subscriber),
         reposts |-> RuleCount(rows, 1, u, subscriber),
         comments |-> RuleCount(rows, 0, u, subscriber)]

CountsCurrent == \A u \in CandidatesNow : CachedCounts(post[u]) = CurrentCounts(u)

PG_MAX_BIND_PARAMS == 65535     \* "Postgres supports at most 65535 bind params"
DeployedChunkSize  == 50000     \* IN_CLAUSE_CHUNK_SIZE as deployed
DeployedBatchSize  == 5000      \* batchSize as deployed

FollowedSizes      == {0, 1, 65533, 65534}
SubscriberSizes    == {0, 1, 15534, 15535}
PublisherPostSizes == {0, 1, 50000, 50001}
OtherPostSizes     == {0, 1, 5001, 50001}

\* items.slice(i, i + size).length
SliceLen(n, i, size) == Min(i + size, n) - i

\* where indexedAt >= timeLimit and author in accountsToCheck
SelectBinds(nAccounts) == 1 + nAccounts

\* where subjectUri in chunk [and author in subscriberDids] and type = k
EngagementCountBinds(chunkLen, nAuthors) == chunkLen + nAuthors + 1

\* where rootUri in chunk [and author in subscriberDids] and rootUri != ''
CommentCountBinds(chunkLen, nAuthors) == chunkLen + nAuthors + 1

\* three CASE lists of (uri, count) pairs and the IN list of the WHERE
UpdateBinds(batchLen) == 3 * (2 * batchLen) + batchLen

\* accountsToCheck.length: the followed accounts and the newsbots
AccountsToCheckLen(nFollowed) == nFollowed + Cardinality(NewsbotDids)

BindPhaseSize(b, phase) ==
    CASE phase \in {"otherLikes", "otherReposts", "otherComments"} -> b.nOther
      [] phase \in {"publisherLikes", "publisherReposts", "publisherComments"} ->
            IF b.nSubscribers > 0 THEN b.nPublisher ELSE 0
      [] OTHER -> b.nPublisher + b.nOther

\* the first phase from index k on that has a statement to issue, or "done"
RECURSIVE BindFirstPhaseFrom(_, _)
BindFirstPhaseFrom(b, k) ==
    IF k > Len(Phases) THEN "done"
    ELSE IF BindPhaseSize(b, Phases[k]) > 0 THEN Phases[k]
    ELSE BindFirstPhaseFrom(b, k + 1)

\* the statement is sent; the server refuses one with too many parameters
\* and the run rethrows
Issue(b, kind, n, pc, i) ==
    [b EXCEPT !.last = [kind |-> kind, n |-> n],
              !.pc = IF n > PG_MAX_BIND_PARAMS THEN "aborted" ELSE pc,
              !.i = i]

InitBinds ==
    /\ post = EmptyTable
    /\ engagement = EmptyTable
    /\ follows = {}
    /\ subscriber = {}
    /\ sub_state = <<>>
    /\ env = [scoped |-> FALSE, track |-> FALSE, restrict |-> FALSE]
    /\ now = 0
    /\ IdleScope
    /\ he = <<>>
    /\ stream = <<>>
    /\ agg = <<>>
    /\ evt = NoEvt
    /\ retention = <<>>
    /\ feed = <<>>
    /\ exp = <<>>
    /\ request_log = <<>>
    /\ request_posts = {}
    /\ timers = <<>>
    /\ sched = <<>>
    /\ study = <<>>
    /\ \E f \in FollowedSizes, s \in SubscriberSizes,
          p \in PublisherPostSizes, o \in OtherPostSizes :
          binds = [pc |-> "reads", i |-> 0, nFollowed |-> f, nSubscribers |-> s,
                   nPublisher |-> p, nOther |-> o,
                   last |-> [kind |-> "none", n |-> 0]]

\* select did from subscriber; select follows from follows; the early return
BindReads ==
    /\ binds # NoBinds
    /\ binds.pc = "reads"
    /\ binds' = Issue(binds, "reads", 0,
                      IF binds.nFollowed = 0 THEN "done" ELSE "select", 0)
    /\ UNCHANGED <<dbVars, env, now, scopeVars, he, stream, agg, evt, exceptBinds>>

\* the candidate-post selection
BindSelect ==
    /\ binds # NoBinds
    /\ binds.pc = "select"
    /\ binds' = Issue(binds, "select",
                      SelectBinds(AccountsToCheckLen(binds.nFollowed)),
                      IF binds.nPublisher + binds.nOther = 0 THEN "done"
                      ELSE BindFirstPhaseFrom(binds, 1), 0)
    /\ UNCHANGED <<dbVars, env, now, scopeVars, he, stream, agg, evt, exceptBinds>>

\* one chunk of a count query
BindCount ==
    /\ binds # NoBinds
    /\ binds.pc \in Range(Phases) \ {"update"}
    /\ LET size == BindPhaseSize(binds, binds.pc)
           len  == SliceLen(size, binds.i, DeployedChunkSize)
           nAuthors == IF binds.pc \in {"publisherLikes", "publisherReposts",
                                        "publisherComments"}
                       THEN binds.nSubscribers ELSE 0
           n    == IF binds.pc \in {"otherComments", "publisherComments"}
                   THEN CommentCountBinds(len, nAuthors)
                   ELSE EngagementCountBinds(len, nAuthors)
           j    == binds.i + DeployedChunkSize
       IN  binds' = IF j < size
                    THEN Issue(binds, binds.pc, n, binds.pc, j)
                    ELSE Issue(binds, binds.pc, n,
                               BindFirstPhaseFrom(binds, PhaseIndex(binds.pc) + 1), 0)
    /\ UNCHANGED <<dbVars, env, now, scopeVars, he, stream, agg, evt, exceptBinds>>

\* one batch of the bulk UPDATE
BindUpdate ==
    /\ binds # NoBinds
    /\ binds.pc = "update"
    /\ LET size == BindPhaseSize(binds, "update")
           n    == UpdateBinds(SliceLen(size, binds.i, DeployedBatchSize))
           j    == binds.i + DeployedBatchSize
       IN  binds' = Issue(binds, "update", n,
                          IF j < size THEN "update" ELSE "done",
                          IF j < size THEN j ELSE 0)
    /\ UNCHANGED <<dbVars, env, now, scopeVars, he, stream, agg, evt, exceptBinds>>

NextBinds ==
    \/ BindReads
    \/ BindSelect
    \/ BindCount
    \/ BindUpdate

SpecBinds == InitBinds /\ [][NextBinds]_vars

(***************************************************************************)
(* C11.  No statement issued by updateEngagement binds more parameters     *)
(* than the storage engine's ceiling of 65535, whatever the sizes of the   *)
(* candidate URI set, the subscriber set and the followed-account set.     *)
(***************************************************************************)
C11_BindsWithinCeiling ==
    binds # NoBinds => binds.last.n <= PG_MAX_BIND_PARAMS

\* a statement over the ceiling was sent and the run aborted
C11_Witness ==
    /\ binds # NoBinds
    /\ binds.pc = "aborted"
    /\ binds.last.kind \in {"select", "publisherLikes"}
    /\ binds.last.n > PG_MAX_BIND_PARAMS

\* What the chunking does bound: the statements whose only list is a chunk
\* or a batch of candidate URIs.
UriListBindsWithinCeiling ==
    (binds # NoBinds /\ binds.last.kind \in
        {"otherLikes", "otherReposts", "otherComments", "update"})
        => binds.last.n <= PG_MAX_BIND_PARAMS

(***************************************************************************)
(* C12.  In a run that read at least one subscriber, each count written    *)
(* for a publisher-authored candidate is the number of matching events     *)
(* (likes, reposts, comments) whose actor is a subscriber, and each count  *)
(* written for any other candidate is the number of all matching events,   *)
(* whoever the actor; the events are those in the store when the run's     *)
(* count query for that candidate ran.                                     *)
(***************************************************************************)
\* the events of kind k (2 like, 1 repost, 0 comment) on u that the run read
EventsRead(r, k, u) == {x \in r.seen : x.k = k /\ x.u = u}
SubscriberEventsRead(r, k, u) == {x \in EventsRead(r, k, u) : x.a \in r.subscriberDids}

\* the author column of the candidate row the run selected for u
CandidateAuthor(r, u) ==
    r.recentPosts[CHOOSE i \in DOMAIN r.recentPosts : r.recentPosts[i].uri = u].author

\* C12: each count an UPDATE writes for a publisher-authored candidate is the number
\* of matching events by subscribers, and for any other candidate the number of all
\* matching events, as read by the run's count queries.
C12_PublisherCountsSubscribersOnly ==
    [][\A s \in Slots :
          (Updates(s) /\ agg[s].subscriberDids # {}) =>
             \A u \in NextBatch(s) \cap DOMAIN post :
                 LET r == agg[s]
                     events(k) == IF CandidateAuthor(r, u) \in NewsbotDids
                                  THEN SubscriberEventsRead(r, k, u)
                                  ELSE EventsRead(r, k, u)
                 IN  /\ post'[u].likes_count = Cardinality(events(2))
                     /\ post'[u].repost_count = Cardinality(events(1))
                     /\ post'[u].comments_count = Cardinality(events(0))]_vars

\* a run with subscriber S has returned: the publisher's post, liked by S and by
\* B, is written 1 like, and A's post, liked by B, S and A, is written 3
C12_Witness ==
    /\ ~Active(1)
    /\ subscriber = {"S"}
    /\ follows # {}
    /\ {lBP.uri, lSP.uri, lBA.uri, lSA.uri, lAA.uri} \subseteq DOMAIN engagement
    /\ uP1 \in DOMAIN post /\ post[uP1].likes_count = 1
    /\ uA1 \in DOMAIN post /\ post[uA1].likes_count = 3

(***************************************************************************)
(* C13.  A completed run rewrites all four cached counts of each candidate *)
(* post, and the quote_count it leaves is the number of quote (type 3)     *)
(* engagement rows whose subject is that post.                             *)
(***************************************************************************)
QuoteEvents(table, u) ==
    {e \in DOMAIN table : table[e].type = 3 /\ table[e].subjectUri = u}

\* C13: the completing UPDATE leaves in quote_count of each candidate the number of
\* type 3 engagement rows whose subject is that candidate.
C13_QuoteCountRewritten ==
    [][\A s \in Slots :
          (Completes(s) /\ evt.n = FirstUpdateAt(s)) =>
             \A u \in Range(PostUris(agg[s])) \cap DOMAIN post' :
                 post'[u].quote_count = Cardinality(QuoteEvents(engagement', u))]_vars

\* a run has returned after rewriting A's like, repost and comment counts, and
\* A's post, quoted once, still has quote_count 0
C13_Witness ==
    /\ ~Active(1)
    /\ evt.n = 0
    /\ uA1 \in DOMAIN post
    /\ CachedCounts(post[uA1]) = [likes |-> 3, reposts |-> 0, comments |-> 1]
    /\ Cardinality(QuoteEvents(engagement, uA1)) = 1
    /\ post[uA1].quote_count = 0

(***************************************************************************)
(* C14.  Which posts a run recomputes.                                     *)
(***************************************************************************)
\* the run in slot s returns: by an early return or after its last UPDATE
Returns(s) == Active(s) /\ agg'[s] = IdleRun
\* the run in slot s executes the candidate selection
Selects(s) == Active(s) /\ agg[s].pc = "posts" /\ agg'[s] # agg[s]

\* the stored posts whose indexedAt lies in the window of the run in slot s, which
\* ends engagementTimeHours before the moment the run was invoked
InWindow(s) == {u \in DOMAIN post : post[u].indexedAt >= agg[s].timeLimit}
\* those of them written by a followed account or a configured publisher
InWindowOfCheckedAuthors(s) ==
    {u \in InWindow(s) : post[u].author \in {f[2] : f \in follows} \cup NewsbotDids}

\* the uris the run has named in an UPDATE once the step is taken
WrittenAfter(s) ==
    agg[s].written \cup (IF agg[s].pc = "update" THEN NextBatch(s) ELSE {})

\* C14 as claimed: a run returns only after an UPDATE has named every post that was
\* in the window when the run selected its candidates (when it returned, for a run
\* that returned before selecting), whatever follows and subscriber hold.
C14_EveryWindowPostRecomputed ==
    [][\A s \in Slots :
          /\ (Returns(s) /\ agg[s].pc \in {"follows", "posts"}) => InWindow(s) = {}
          /\ (Selects(s) /\ agg'[s] # IdleRun) =>
                Range(PostUris(agg'[s])) = InWindow(s)
          /\ Completes(s) => WrittenAfter(s) = Range(PostUris(agg[s]))]_vars

\* C14 (amended): a run that read a non-empty follows table selects exactly the
\* stored posts in the window whose author is a followed account or a configured
\* publisher, returns early only when there is none, and otherwise returns only
\* after an UPDATE has named each selected post; a run that read an empty follows
\* table returns without writing.
C14_CheckedAuthorsRecomputed ==
    [][\A s \in Slots :
          /\ (Returns(s) /\ agg[s].pc = "follows") => (follows = {} /\ post' = post)
          /\ (Returns(s) /\ agg[s].pc = "posts") => InWindowOfCheckedAuthors(s) = {}
          /\ (Selects(s) /\ agg'[s] # IdleRun) =>
                Range(PostUris(agg'[s])) = InWindowOfCheckedAuthors(s)
          /\ Completes(s) => WrittenAfter(s) = Range(PostUris(agg[s]))]_vars

\* a run over a store holding S's post (S is not followed and is no publisher) has
\* returned: A's post has been recomputed, and S's post is in the window
C14_Witness ==
    /\ ~Active(1)
    /\ follows # {}
    /\ evt.n = 0
    /\ uA1 \in DOMAIN post /\ post[uA1].likes_count = 3
    /\ uS2 \in DOMAIN post /\ post[uS2].indexedAt >= now - engagementTimeHours

(***************************************************************************)
(* Retention (util/retention.ts, setupRetentionScheduler).  One "day" of   *)
(* the retention windows is one tick of the clock.  runRetentionOnce reads *)
(* its configuration and computes both cutoffs on entry, then runs the     *)
(* engagement delete loop and after it the post delete loop; each awaited  *)
(* DELETE is one step.  The scheduler's interval may fire while an earlier *)
(* pass is still running, so two passes can be in progress.                *)
(***************************************************************************)
postRetentionDays       == 2
engagementRetentionDays == 1
DeleteBatchSizes        == {1, 2}
MaxRetentionEvents      == 2

IdlePass == [pc |-> "idle"]

\* getRetentionConfig
getRetentionConfig(enabled, size) ==
    [enabled |-> enabled, postRetentionDays |-> postRetentionDays,
     engagementRetentionDays |-> engagementRetentionDays, deleteBatchSize |-> size]

\* isoDaysAgo
isoDaysAgo(days) == now - days

\* mutant: rows indexed exactly at the cutoff are selected too
ExpiredThroughCutoff(table, cutoff) == {u \in DOMAIN table : table[u].indexedAt <= cutoff}

\* SELECT ctid FROM <table> WHERE "indexedAt" < cutoff
Expired(table, cutoff) == {u \in DOMAIN table : table[u].indexedAt < cutoff}

\* the sets of rows  ... LIMIT size  may return: without ORDER BY, any `size` of
\* the expired rows, or all of them when there are fewer
LimitedBatches(table, cutoff, size) ==
    LET old == Expired(table, cutoff)
    IN  {D \in SUBSET old : Cardinality(D) = Min(size, Cardinality(old))}

\* DELETE FROM <table> WHERE ctid IN (the rows D)
DeleteRows(table, D) == [u \in DOMAIN table \ D |-> table[u]]

PassActive(s) == s \in DOMAIN retention.passes /\ retention.passes[s] # IdlePass

\* an interval tick (or the immediate first call) invokes runRetentionOnce, which
\* returns at once when retention is disabled and else runs up to its first await
StartPass(s) ==
    /\ retention # <<>>
    /\ s \in DOMAIN retention.passes
    /\ ~PassActive(s)
    /\ \A t \in DOMAIN retention.passes : t < s => PassActive(t)
    /\ retention.cfg.enabled
    /\ retention' = [retention EXCEPT !.passes[s] =
                        [pc |-> "engagement",
                         postCutoff |-> isoDaysAgo(retention.cfg.postRetentionDays),
                         engagementCutoff |->
                             isoDaysAgo(retention.cfg.engagementRetentionDays)]]
    /\ UNCHANGED <<dbVars, env, now, scopeVars, he, stream, agg, evt, exceptRetention>>

\* one iteration of the engagement loop
DeleteEngagementBatch(s) ==
    /\ retention # <<>>
    /\ PassActive(s)
    /\ retention.passes[s].pc = "engagement"
    /\ \E D \in LimitedBatches(engagement, retention.passes[s].engagementCutoff,
                               retention.cfg.deleteBatchSize) :
          /\ engagement' = DeleteRows(engagement, D)
          /\ retention' = IF Cardinality(D) < retention.cfg.deleteBatchSize
                          THEN [retention EXCEPT !.passes[s].pc = "post"]
                          ELSE retention
    /\ UNCHANGED <<post, follows, subscriber, sub_state, env, now, scopeVars, he,
                   stream, agg, evt, exceptRetention>>

\* one iteration of the post loop; after the last one the pass returns
DeletePostBatch(s) ==
    /\ retention # <<>>
    /\ PassActive(s)
    /\ retention.passes[s].pc = "post"
    /\ \E D \in LimitedBatches(post, retention.passes[s].postCutoff,
                               retention.cfg.deleteBatchSize) :
          /\ post' = DeleteRows(post, D)
          /\ retention' = IF Cardinality(D) < retention.cfg.deleteBatchSize
                          THEN [retention EXCEPT !.passes[s] = IdlePass]
                          ELSE retention
    /\ UNCHANGED <<engagement, follows, subscriber, sub_state, env, now, scopeVars, he,
                   stream, agg, evt, exceptRetention>>

\* rows stored before the clock of the model starts
AgedPost(create, t) ==
    [StoredPost(create, 0, 0) EXCEPT !.indexedAt = t]
AgedLike(create, t) == [StoredLike(create) EXCEPT !.indexedAt = t]

\* commits the projector handles while retention runs
RetentionBatches ==
    {Batch(<<cB3>>, <<>>, <<>>, <<>>, <<lSP>>, <<>>),
     Batch(<<cB4>>, <<>>, <<rBP>>, <<>>, <<>>, <<>>)}

RetentionHandleEvent(ops) ==
    /\ evt.n < MaxRetentionEvents
    /\ HandleEvent(ops)

InitRetention ==
    /\ post = (uA1 :> AgedPost(cA1, -3)) @@ (uB1 :> AgedPost(cB1, -3))
                @@ (uB2 :> AgedPost(cB2, -2)) @@ (uP1 :> AgedPost(cP1, 0))
    /\ engagement = (lBA.uri :> AgedLike(lBA, -2)) @@ (lSA.uri :> AgedLike(lSA, -1))
                      @@ (lBP.uri :> AgedLike(lBP, 0))
    /\ follows = {<<"S", "A">>}
    /\ subscriber = {"S"}
    /\ sub_state = <<>>
    /\ env = [scoped |-> FALSE, track |-> FALSE, restrict |-> FALSE]
    /\ now = 0
    /\ IdleScope
    /\ he = <<>>
    /\ stream = <<>>
    /\ agg = <<>>
    /\ evt = NoEvt
    /\ binds = NoBinds
    /\ feed = <<>>
    /\ exp = <<>>
    /\ request_log = <<>>
    /\ request_posts = {}
    /\ timers = <<>>
    /\ sched = <<>>
    /\ study = <<>>
    /\ \E enabled \in BOOLEAN, size \in DeleteBatchSizes :
          retention = [cfg |-> getRetentionConfig(enabled, size),
                       passes |-> [s \in {1, 2} |-> IdlePass]]

PassStep(s) == DeleteEngagementBatch(s) \/ DeletePostBatch(s)

NextRetention ==
    \/ \E s \in {1, 2} : StartPass(s)
    \/ \E s \in {1, 2} : DeleteEngagementBatch(s)
    \/ \E s \in {1, 2} : DeletePostBatch(s)
    \/ \E ops \in RetentionBatches : RetentionHandleEvent(ops)
    \/ Tick

\* Fairness: the interval timer keeps firing (it is cleared only by
\* stopAllSchedulers), and every awaited DELETE completes.
SpecRetention ==
    /\ InitRetention
    /\ [][NextRetention]_vars
    /\ \A s \in {1, 2} : WF_vars(StartPass(s)) /\ WF_vars(PassStep(s))

(***************************************************************************)
(* C15.  With retention enabled, no pass deletes a post or engagement row  *)
(* whose indexedAt is at or after the respective cutoff (now minus the     *)
(* configured retention days), and every row older than its cutoff is      *)
(* eventually absent, whatever the backlog is relative to the batch size   *)
(* and while the projector inserts rows.                                   *)
(***************************************************************************)
Removed(table, after) == DOMAIN table \ DOMAIN after

NoExpiredRow ==
    /\ Expired(post, now - postRetentionDays) = {}
    /\ Expired(engagement, now - engagementRetentionDays) = {}

\* a step that changes a table without handling a commit is a DELETE of a pass
RetentionDeletesOnlyExpired ==
    [][(retention # <<>> /\ (post' # post \/ engagement' # engagement) /\ evt' = evt) =>
          /\ \A u \in Removed(post, post') : post[u].indexedAt < now - postRetentionDays
          /\ \A e \in Removed(engagement, engagement') :
                engagement[e].indexedAt < now - engagementRetentionDays
          /\ \A u \in DOMAIN post' : u \in DOMAIN post /\ post'[u] = post[u]
          /\ \A e \in DOMAIN engagement' :
                e \in DOMAIN engagement /\ engagement'[e] = engagement[e]]_vars

\* C15: no step deletes a row that is at or after its cutoff, and with retention
\* enabled every row older than its cutoff is eventually absent for good.
C15_RetentionTrimsExpiredOnly ==
    /\ RetentionDeletesOnlyExpired
    /\ (retention # <<>> /\ retention.cfg.enabled) => <>[]NoExpiredRow

\* the clock has advanced, the projector has stored B's post 3, and passes with a
\* batch size of 2 have removed the three aged posts and the aged likes while the
\* rows inside the windows are kept
C15_Witness ==
    /\ retention # <<>>
    /\ retention.cfg.enabled /\ retention.cfg.deleteBatchSize = 2
    /\ now = 1
    /\ NoExpiredRow
    /\ {uA1, uB1, uB2} \cap DOMAIN post = {}
    /\ {uP1, uB3} \subseteq DOMAIN post
    /\ {lBA.uri, lSA.uri} \cap DOMAIN engagement = {}
    /\ lBP.uri \in DOMAIN engagement

(***************************************************************************)
(* Feed ranking (algos/feed-builder.ts with the query builders of          *)
(* algos/newsflow-uk-2.ts).  Strings that the code parses or formats are   *)
(* sequences of one-character strings.  buildFeed awaits getFollows, then  *)
(* issues both stream queries at once (they complete in either order) and  *)
(* merges their rows when both have completed.                             *)
(***************************************************************************)
DigitChars == <<"0", "1", "2", "3", "4", "5", "6", "7", "8", "9">>
IsDigit(c) == \E i \in DOMAIN DigitChars : DigitChars[i] = c
DigitValue(c) == (CHOOSE i \in DOMAIN DigitChars : DigitChars[i] = c) - 1

NaN == [nan |-> TRUE, n |-> 0]
Num(n) == [nan |-> FALSE, n |-> n]

RECURSIVE DigitsValue(_)
DigitsValue(ds) ==
    IF ds = <<>> THEN 0
    ELSE 10 * DigitsValue(SubSeq(ds, 1, Len(ds) - 1)) + DigitValue(ds[Len(ds)])

\* parseInt(chars, 10): an optional sign, then the longest run of digits; NaN
\* when there is no digit
parseInt(chars) ==
    LET neg  == chars # <<>> /\ chars[1] = "-"
        body == IF neg THEN Tail(chars) ELSE chars
        stop == {i \in DOMAIN body : ~IsDigit(body[i])}
        k    == IF stop = {} THEN Len(body)
                ELSE (CHOOSE i \in stop : \A j \in stop : i <= j) - 1
        v    == DigitsValue(SubSeq(body, 1, k))
    IN  IF k = 0 THEN NaN ELSE Num(IF neg THEN 0 - v ELSE v)

\* Number.prototype.toString() of an integer
RECURSIVE toString(_)
toString(n) ==
    IF n < 0 THEN <<"-">> \o toString(0 - n)
    ELSE IF n < 10 THEN <<DigitChars[n + 1]>>
    ELSE toString(n \div 10) \o <<DigitChars[(n % 10) + 1]>>

NoCursor == <<>>      \* cursor absent (request) or undefined (response)

\* the posts of the feed store: uri, indexedAt and cid (a content hash, here a
\* number; the queries order by it last)
FeedCatalogue ==
    {[uri |-> MkUri("P", PostColl, "1"), indexedAt |-> 0, cid |-> 5],
     [uri |-> MkUri("P", PostColl, "2"), indexedAt |-> 1, cid |-> 2],
     [uri |-> MkUri("P", PostColl, "3"), indexedAt |-> 1, cid |-> 9],
     [uri |-> MkUri("P", PostColl, "4"), indexedAt |-> 0, cid |-> 1],
     [uri |-> MkUri("A", PostColl, "1"), indexedAt |-> 0, cid |-> 3],
     [uri |-> MkUri("A", PostColl, "2"), indexedAt |-> 1, cid |-> 8],
     [uri |-> MkUri("A", PostColl, "3"), indexedAt |-> 0, cid |-> 7],
     [uri |-> MkUri("A", PostColl, "4"), indexedAt |-> 0, cid |-> 4],
     [uri |-> MkUri("A", PostColl, "5"), indexedAt |-> 0, cid |-> 6],
     [uri |-> MkUri("A", PostColl, "6"), indexedAt |-> 0, cid |-> 10],
     [uri |-> MkUri("A", PostColl, "7"), indexedAt |-> 0, cid |-> 11],
     [uri |-> MkUri("B", PostColl, "1"), indexedAt |-> 1, cid |-> 12]}

cidOf(u) == (CHOOSE c \in FeedCatalogue : c.uri = u).cid

\* process.env.NEWSBOT_UK_DID || ''
publisherDid == "P"

\* getFollows(actor, db)
getFollows(actor) == {f[2] : f \in {g \in follows : g[1] = actor}}

\* ORDER BY coalesce(priority, 0) DESC, "indexedAt" DESC, cid DESC
OrderedBefore(u, v) ==
    LET pr(x) == IF post[x].priority = <<>> THEN 0 ELSE post[x].priority[1]
    IN  \/ pr(u) > pr(v)
        \/ pr(u) = pr(v) /\ post[u].indexedAt > post[v].indexedAt
        \/ pr(u) = pr(v) /\ post[u].indexedAt = post[v].indexedAt /\ cidOf(u) > cidOf(v)

\* the rows S in query order
InQueryOrder(S) ==
    [i \in 1..Cardinality(S) |->
        CHOOSE u \in S : Cardinality({v \in S : OrderedBefore(v, u)}) = i - 1]

\* mutant: the statement has no LIMIT
OffsetNoLimit(rows, offset, limit) == SubSeq(rows, offset + 1, Len(rows))

\* ... OFFSET offset LIMIT limit
OffsetLimit(rows, offset, limit) == SubSeq(rows, offset + 1, Min(offset + limit, Len(rows)))

\* buildPublisherPostsQuery without its OFFSET and LIMIT
PublisherCandidates(timeLimit) ==
    {u \in DOMAIN post : post[u].author = publisherDid /\ post[u].indexedAt >= timeLimit}

\* buildFollowsPostsQuery without its OFFSET and LIMIT
FollowsCandidates(timeLimit, requesterFollows) ==
    {u \in DOMAIN post : /\ post[u].author # publisherDid
                         /\ post[u].indexedAt >= timeLimit
                         /\ post[u].author \in requesterFollows}

\* mutant: one network post per round
MergeOneToOne(publisherPosts, otherPosts) ==
    [i \in 1..(2 * Min(Len(publisherPosts), Len(otherPosts))) |->
        IF i % 2 = 1 THEN publisherPosts[(i + 1) \div 2] ELSE otherPosts[i \div 2]]

\* the merge loop: one publisher post, then up to two other posts, until both
\* lists are used up
RECURSIVE Merge(_, _)
Merge(publisherPosts, otherPosts) ==
    IF publisherPosts = <<>> /\ otherPosts = <<>> THEN <<>>
    ELSE LET p == IF publisherPosts # <<>> THEN <<Head(publisherPosts)>> ELSE <<>>
             k == Min(2, Len(otherPosts))
         IN  p \o SubSeq(otherPosts, 1, k)
               \o Merge(IF publisherPosts # <<>> THEN Tail(publisherPosts) ELSE <<>>,
                        SubSeq(otherPosts, k + 1, Len(otherPosts)))

\* mutant: the next offset advances by the requested page size
NextCursorByPage(cursorOffset, limit, requested) == toString(cursorOffset + requested * 2)

\* (cursorOffset + limit * 2).toString(), limit being a third of the requested
\* page size
NextCursor(cursorOffset, limit, requested) == toString(cursorOffset + limit * 2)

FeedLimits  == {1, 2, 3, 4, 9, 10}
FeedCursors == {NoCursor, <<"0">>, <<"3">>, <<"6">>, <<"0", "6">>, <<"1", "2">>,
                <<"6", "x">>, <<"x">>, <<"-", "6">>}

NoRows == <<>>        \* a query still outstanding; a result is <<rows>>

\* the handler has answered, or buildFeed has resolved or rejected
FeedAtRest == {"idle", "responded", "failed", "denied"}

\* history: the pages a client has received so far by requesting a first page
\* and then following each returned cursor, with the store and the clock of
\* the first request; <<>> when the request in progress is not such a request
NoSession == <<>>
SessionOf(f) == IF "session" \in DOMAIN f THEN f.session ELSE NoSession
NextSession(f, requesterDid, requested, cursor) ==
    IF cursor = NoCursor
    THEN <<[requesterDid |-> requesterDid, limit |-> requested,
            post |-> post, now |-> now, pages |-> <<>>]>>
    ELSE LET s == SessionOf(f)
         IN  IF /\ s # NoSession
                /\ f.pc = "responded"
                /\ f.res.cursor = cursor
                /\ s[1].requesterDid = requesterDid
                /\ s[1].limit = requested
                /\ s[1].post = post
                /\ s[1].now = now
             THEN s
             ELSE NoSession

\* buildFeed up to the point where both queries have been issued
BeginFeed(requesterDid, requested, cursor) ==
    /\ feed # <<>>
    /\ feed.pc \in FeedAtRest
    /\ feed' = [pc |-> "queries",
                requesterDid |-> requesterDid,
                params |-> [limit |-> requested, cursor |-> cursor],
                limit |-> requested \div 3,
                requesterFollows |-> getFollows(requesterDid),
                timeLimit |-> now - engagementTimeHours,
                cursorOffset |-> IF cursor # <<>> THEN parseInt(cursor) ELSE Num(0),
                publisherPosts |-> NoRows, otherPosts |-> NoRows,
                publisherCandidates |-> 0, otherCandidates |-> 0,
                res |-> [feed |-> <<>>, cursor |-> NoCursor],
                session |-> NextSession(feed, requesterDid, requested, cursor)]
    /\ UNCHANGED <<dbVars, env, now, scopeVars, he, stream, agg, evt, exceptFeed>>

\* a query whose OFFSET is NaN or negative is refused and buildFeed rejects
OffsetAccepted(o) == ~o.nan /\ o.n >= 0

\* the publisher stream query completes
PublisherQuery ==
    /\ feed # <<>>
    /\ feed.pc = "queries"
    /\ feed.publisherPosts = NoRows
    /\ LET rows == InQueryOrder(PublisherCandidates(feed.timeLimit))
       IN  feed' = IF OffsetAccepted(feed.cursorOffset)
                   THEN [feed EXCEPT
                           !.publisherPosts =
                               <<OffsetLimit(rows, feed.cursorOffset.n, feed.limit)>>,
                           !.publisherCandidates = Len(rows) - feed.cursorOffset.n]
                   ELSE [feed EXCEPT !.pc = "failed"]
    /\ UNCHANGED <<dbVars, env, now, scopeVars, he, stream, agg, evt, exceptFeed>>

\* the network stream query completes
FollowsQuery ==
    /\ feed # <<>>
    /\ feed.pc = "queries"
    /\ feed.otherPosts = NoRows
    /\ LET rows == InQueryOrder(FollowsCandidates(feed.timeLimit, feed.requesterFollows))
       IN  feed' = IF OffsetAccepted(feed.cursorOffset)
                   THEN [feed EXCEPT
                           !.otherPosts =
                               <<OffsetLimit(rows, feed.cursorOffset.n, feed.limit * 2)>>,
                           !.otherCandidates = Len(rows) - feed.cursorOffset.n]
                   ELSE [feed EXCEPT !.pc = "failed"]
    /\ UNCHANGED <<dbVars, env, now, scopeVars, he, stream, agg, evt, exceptFeed>>

\* export const shortname (algos/newsflow-uk-2.ts)
shortname == "newsflow-uk-2"

\* the closure of the setTimeout callback that writes the audit log
LogCallback(f, res) ==
    [pc |-> "scheduled",
     algo |-> shortname,
     requesterDid |-> f.requesterDid,
     params |-> f.params,
     cursor |-> res.cursor,
     publisherPosts |-> Len(f.publisherPosts[1]),
     otherPosts |-> Len(f.otherPosts[1]),
     feed |-> res.feed]

\* both queries have completed: merge, compute the cursor, schedule the audit
\* log write with setTimeout(..., 0), return
Respond ==
    /\ feed # <<>>
    /\ feed.pc = "queries"
    /\ feed.publisherPosts # NoRows /\ feed.otherPosts # NoRows
    /\ LET publisherPosts == feed.publisherPosts[1]
           otherPosts == feed.otherPosts[1]
           totalPostsReturned == Len(publisherPosts) + Len(otherPosts)
           res == [feed |-> Merge(publisherPosts, otherPosts),
                   cursor |-> IF totalPostsReturned > 0
                              THEN NextCursor(feed.cursorOffset.n, feed.limit,
                                              feed.params.limit)
                              ELSE NoCursor]
       IN  /\ feed' = [feed EXCEPT
                          !.pc = "responded",
                          !.res = res,
                          !.session =
                              IF @ = NoSession THEN @
                              ELSE <<[@[1] EXCEPT !.pages = Append(@, res.feed)]>>]
           /\ timers' = Append(timers, LogCallback(feed, res))
    /\ UNCHANGED <<dbVars, env, now, scopeVars, he, stream, agg, evt, exceptFeedLog,
                   request_log, request_posts>>

\* the values of the request_log insert; the id is assigned by the serial column
RequestLogRow(cb, id, timestamp) ==
    [id |-> id,
     algo |-> cb.algo,
     requester_did |-> cb.requesterDid,
     timestamp |-> timestamp,
     cursor_in |-> cb.params.cursor,
     cursor_out |-> cb.cursor,
     requested_limit |-> cb.params.limit,
     publisher_count |-> cb.publisherPosts,
     follows_count |-> cb.otherPosts,
     result_count |-> Len(cb.feed)]

\* feed.map((post, index) => ({position: index + 1, request_id, post_uri}))
PostValues(feedEntries, request_id) ==
    {[position |-> i, request_id |-> request_id, post_uri |-> feedEntries[i]] :
        i \in DOMAIN feedEntries}

\* the sequence s without its i-th element
RemoveAt(s, i) == SubSeq(s, 1, i - 1) \o SubSeq(s, i + 1, Len(s))

\* mutant: the callback has no catch and the rejection escapes
LogErrorEscapes(cb) == <<[cb EXCEPT !.pc = "uncaught"]>>

\* catch (error) { console.error(...) }: the callback ends
LogErrorCaught(cb) == <<>>

\* callbacks scheduled with the same delay start in the order of their
\* setTimeout calls
NextToStart(i) == \A j \in 1..(i - 1) : timers[j].pc # "scheduled"

\* the callback starts: insert into request_log ... returning id
LogRequestInsert(i, succeeds) ==
    /\ i \in DOMAIN timers
    /\ timers[i].pc = "scheduled"
    /\ NextToStart(i)
    /\ LET cb == timers[i]
           id == Len(request_log) + 1
       IN  IF succeeds
           THEN /\ request_log' = Append(request_log, RequestLogRow(cb, id, now))
                /\ timers' = IF Len(cb.feed) > 0
                             THEN [timers EXCEPT ![i] = [cb EXCEPT !.pc = "posts"]
                                                         @@ [request_id |-> id]]
                             ELSE RemoveAt(timers, i)
           ELSE /\ request_log' = request_log
                /\ timers' = SubSeq(timers, 1, i - 1) \o LogErrorCaught(cb)
                                \o SubSeq(timers, i + 1, Len(timers))
    /\ UNCHANGED <<dbVars, env, now, scopeVars, he, stream, agg, evt, exceptFeedLog,
                   feed, request_posts>>

\* the batch insert into request_posts
LogPostsInsert(i, succeeds) ==
    /\ i \in DOMAIN timers
    /\ timers[i].pc = "posts"
    /\ LET cb == timers[i]
       IN  IF succeeds
           THEN /\ request_posts' = request_posts \cup PostValues(cb.feed, cb.request_id)
                /\ timers' = RemoveAt(timers, i)
           ELSE /\ request_posts' = request_posts
                /\ timers' = SubSeq(timers, 1, i - 1) \o LogErrorCaught(cb)
                                \o SubSeq(timers, i + 1, Len(timers))
    /\ UNCHANGED <<dbVars, env, now, scopeVars, he, stream, agg, evt, exceptFeedLog,
                   feed, request_log>>

NoAuth == <<>>        \* extractDidFromAuth throws; otherwise the auth is <<did>>

\* process.env.FEEDGEN_PUBLISHER_DID || ''
defaultDid == "P"

\* the body { "feed": [] } of a request that is turned away
EmptyFeedBody == [feed |-> <<>>, cursor |-> NoCursor]

\* mutant: every authenticated requester passes
OnWhitelistAlways(requesterDid) == TRUE

\* select from subscriber where did = requesterDid returned a row
OnWhitelist(requesterDid) == requesterDid \in subscriber

\* the getFeedSkeleton handler (methods/feed-generation.ts) up to the point
\* where the algorithm has issued its queries; enforceWhitelist is
\* process.env.FEEDGEN_SUBSCRIBER_ONLY === 'true', read on every request
GetFeedSkeleton(enforceWhitelist, auth, requested, cursor) ==
    IF ~enforceWhitelist
    THEN BeginFeed(defaultDid, requested, cursor)
    ELSE IF auth # NoAuth /\ OnWhitelist(auth[1])
    THEN BeginFeed(auth[1], requested, cursor)
    ELSE /\ feed # <<>>
         /\ feed.pc \in FeedAtRest
         /\ feed' = [pc |-> "denied", auth |-> auth, res |-> EmptyFeedBody]
         /\ UNCHANGED <<dbVars, env, now, scopeVars, he, stream, agg, evt, exceptFeed>>

InitFeed ==
    /\ post = [u \in {c.uri : c \in FeedCatalogue} |->
                  AgedPost(PostCreate(u, NoUri, NoUri, NoEmbed),
                           (CHOOSE c \in FeedCatalogue : c.uri = u).indexedAt)]
    /\ engagement = EmptyTable
    /\ follows = {<<"S", "A">>, <<"P", "B">>}
    /\ subscriber = {"S"}
    /\ sub_state = <<>>
    /\ env = [scoped |-> FALSE, track |-> FALSE, restrict |-> FALSE]
    /\ now = 0
    /\ IdleScope
    /\ he = <<>>
    /\ stream = <<>>
    /\ agg = <<>>
    /\ evt = NoEvt
    /\ binds = NoBinds
    /\ retention = <<>>
    /\ exp = <<>>
    /\ request_log = <<>>
    /\ request_posts = {}
    /\ timers = <<>>
    /\ sched = <<>>
    /\ study = <<>>
    /\ feed = [pc |-> "idle"]

\* the requests of one behaviour that reach the audit log
MaxLogged == 1

LogRoom(k) == Len(request_log) + Len(timers) < k

FeedAuths == {NoAuth, <<"S">>, <<"A">>}

NextFeed ==
    \/ /\ LogRoom(MaxLogged)
       /\ \E enforceWhitelist \in BOOLEAN, auth \in FeedAuths,
             requested \in FeedLimits, cursor \in FeedCursors :
               GetFeedSkeleton(enforceWhitelist, auth, requested, cursor)
    \/ PublisherQuery
    \/ FollowsQuery
    \/ Respond
    \/ \E i \in DOMAIN timers, succeeds \in BOOLEAN : LogRequestInsert(i, succeeds)
    \/ \E i \in DOMAIN timers, succeeds \in BOOLEAN : LogPostsInsert(i, succeeds)
    \/ Prioritize(MkUri("A", PostColl, "3"), 2)
    \/ Tick

SpecFeed == InitFeed /\ [][NextFeed]_vars

(***************************************************************************)
(* The feed endpoint over a store that does not change: clients request    *)
(* pages of three and follow cursors, in either access mode, while the     *)
(* audit-log callbacks of earlier requests are still running.              *)
(***************************************************************************)
SkeletonCatalogue ==
    {c \in FeedCatalogue : c.uri \in {MkUri("P", PostColl, "1"), MkUri("P", PostColl, "2"),
                                      MkUri("P", PostColl, "3"), MkUri("A", PostColl, "1"),
                                      MkUri("A", PostColl, "2"), MkUri("B", PostColl, "1")}}

InitSkeleton ==
    /\ post = [u \in {c.uri : c \in SkeletonCatalogue} |->
                  AgedPost(PostCreate(u, NoUri, NoUri, NoEmbed),
                           (CHOOSE c \in FeedCatalogue : c.uri = u).indexedAt)]
    /\ engagement = EmptyTable
    /\ follows = {<<"S", "A">>, <<"P", "B">>}
    /\ subscriber = {"S"}
    /\ sub_state = <<>>
    /\ env = [scoped |-> FALSE, track |-> FALSE, restrict |-> FALSE]
    /\ now = 0
    /\ IdleScope
    /\ he = <<>>
    /\ stream = <<>>
    /\ agg = <<>>
    /\ evt = NoEvt
    /\ binds = NoBinds
    /\ retention = <<>>
    /\ exp = <<>>
    /\ request_log = <<>>
    /\ request_posts = {}
    /\ timers = <<>>
    /\ sched = <<>>
    /\ study = <<>>
    /\ feed = [pc |-> "idle"]

\* the requests of one behaviour that reach the audit log
MaxSessionLogged == 3

SkeletonLimits  == {3}
SkeletonCursors == {NoCursor, <<"2">>, <<"4">>}

NextSkeleton ==
    \/ /\ LogRoom(MaxSessionLogged)
       /\ \E enforceWhitelist \in BOOLEAN, auth \in FeedAuths,
             requested \in SkeletonLimits, cursor \in SkeletonCursors :
               GetFeedSkeleton(enforceWhitelist, auth, requested, cursor)
    \/ PublisherQuery
    \/ FollowsQuery
    \/ Respond
    \/ \E i \in DOMAIN timers, succeeds \in BOOLEAN : LogRequestInsert(i, succeeds)
    \/ \E i \in DOMAIN timers, succeeds \in BOOLEAN : LogPostsInsert(i, succeeds)

SpecSkeleton == InitSkeleton /\ [][NextSkeleton]_vars

(***************************************************************************)
(* C16.  The merge emits one publisher-stream post followed by up to two   *)
(* network-stream posts, repeatedly, keeping each stream's query order:    *)
(* for limit = 9 with at least 3 publisher and at least 6 network          *)
(* candidates the feed is P,N,N,P,N,N,P,N,N, and when one stream is        *)
(* exhausted the remaining rows of the other follow, none dropped.         *)
(***************************************************************************)
Responded == feed # <<>> /\ feed.pc = "responded"

\* the feed entry comes from the publisher stream
FromPublisher(u) == post[u].author = publisherDid

\* C16: in every response the feed is the two query results merged one publisher
\* row then up to two network rows, in query order, no row dropped.
C16_MergeOneThenTwo ==
    Responded =>
        LET P == feed.publisherPosts[1]
            N == feed.otherPosts[1]
            F == feed.res.feed
        IN  /\ Len(F) = Len(P) + Len(N)
            \* the k-th publisher row follows k - 1 rounds of two network rows, or
            \* all network rows when there are fewer
            /\ \A k \in 1..Len(P) : F[k + Min(2 * (k - 1), Len(N))] = P[k]
            \* the m-th network row is in round (m + 1) \div 2 and follows that many
            \* publisher rows, or all of them when there are fewer
            /\ \A m \in 1..Len(N) : F[m + Min((m + 1) \div 2, Len(P))] = N[m]
            /\ (feed.params.limit = 9 /\ feed.publisherCandidates >= 3
                  /\ feed.otherCandidates >= 6) =>
                  /\ Len(F) = 9
                  /\ \A i \in 1..9 : FromPublisher(F[i]) <=> (i % 3 = 1)

\* a first page of 9 over 4 publisher and 7 network candidates
C16_Witness ==
    /\ Responded
    /\ feed.params = [limit |-> 9, cursor |-> NoCursor]
    /\ feed.publisherCandidates = 4 /\ feed.otherCandidates = 7
    /\ Len(feed.res.feed) = 9
    /\ FromPublisher(feed.res.feed[7]) /\ ~FromPublisher(feed.res.feed[9])

(***************************************************************************)
(* C17.  The cursor buildFeed returns, as a function of the requested page *)
(* limit and the offset of the incoming cursor.                            *)
(***************************************************************************)
\* the offset an incoming cursor stands for: the number written by its leading
\* decimal digits, 0 for an absent cursor
PreviousOffset(cursor) ==
    LET k == Cardinality({i \in DOMAIN cursor : \A j \in 1..i : IsDigit(cursor[j])})
    IN  DigitsValue(SubSeq(cursor, 1, k))

\* chars is the decimal string of the natural number n
IsDecimalOf(chars, n) ==
    /\ chars # <<>>
    /\ \A i \in DOMAIN chars : IsDigit(chars[i])
    /\ Len(chars) > 1 => chars[1] # "0"
    /\ DigitsValue(chars) = n

NoParam == <<>>          \* a query parameter the request does not carry
exportDefaultWindow == 1 \* getDefaultSinceUntil: 24 hours, one tick of this clock
ExportNow == 5           \* Date.now() while SpecExport runs
DefaultLimit == 1000
MaxLimit == 5000

ExportTypes == {"like", "repost", "comment", "quote"}
ExportScopes == {"union", "publisher", "subscriber", "subscriber_on_publisher"}

\* string order of at:// URIs: the authority, the collection and the record key
\* are compared in turn (no collection name is a prefix of another)
AsciiOrder ==
    <<"0", "1", "2", "3", "4", "5", "6", "7", "8", "9",
      "A", "B", "P", "S", "a", "b", "g", "p">>
CharRank(c) == CHOOSE i \in DOMAIN AsciiOrder : AsciiOrder[i] = c
CollRank(coll) ==
    CASE coll = LikeColl -> 1
      [] coll = PostColl -> 2
      [] coll = RepostColl -> 3
UriLess(u, v) ==
    LET k(x) == <<CharRank(x[3]), CollRank(x[4]), CharRank(x[5])>>
    IN  \/ k(u)[1] < k(v)[1]
        \/ k(u)[1] = k(v)[1] /\ k(u)[2] < k(v)[2]
        \/ k(u)[1] = k(v)[1] /\ k(u)[2] = k(v)[2] /\ k(u)[3] < k(v)[3]

\* stored rows with their "createdAt" column
ExportPost(uri, rootUri, createdAt) ==
    [author |-> uri[3], rootUri |-> rootUri, createdAt |-> createdAt, indexedAt |-> createdAt]
ExportEngagement(uri, subjectUri, type, createdAt) ==
    [author |-> uri[3], subjectUri |-> subjectUri, type |-> type,
     createdAt |-> createdAt, indexedAt |-> createdAt]

uS3 == MkUri("S", PostColl, "3")

\* buildFilterSignature: SHA-256 of the JSON of the normalised filters (the types
\* deduplicated and sorted); the digest is taken to be collision free
buildFilterSignature(filters) ==
    [sha256 |-> [since |-> filters.since, until |-> filters.until, scope |-> filters.scope,
                 limit |-> filters.limit, types |-> filters.types,
                 subscriber_did |-> filters.subscriberDid,
                 include_other_subscriber_activity |-> filters.includeOtherSubscriberActivity]]

\* Timestamp texts are integers in the order of their text.  The texts below
\* FirstSpelled are canonical (YYYY-MM-DDTHH:mm:ss.sssZ); from FirstSpelled on,
\* three consecutive integers 3k, 3k+1, 3k+2 are three spellings of one instant:
\* with a +00:00 offset, canonical, and with a bare Z and no milliseconds
\* ('+' < '.' < 'Z').  `new Date(raw).toISOString()` is the canonical spelling.
FirstSpelled == 10
toISOString(raw) == IF raw < FirstSpelled THEN raw ELSE 3 * (raw \div 3) + 1

\* encodeEngagementCursor: base64url of the JSON of the cursor
encodeEngagementCursor(cursor) == [base64url |-> [json |-> cursor]]

\* decodeEngagementCursor: <<cursor>>, or <<>> where it throws (not JSON, not an
\* object, created_at not a timestamp, event_uri or filter_sig empty)
decodeEngagementCursor(raw) ==
    LET parsed == raw.base64url.json
    IN  IF /\ DOMAIN parsed = {"created_at", "event_uri", "filter_sig"}
           /\ parsed.created_at \in Nat
           /\ parsed.event_uri # NoUri
           /\ parsed.filter_sig # <<>>
        THEN <<[parsed EXCEPT !.created_at = toISOString(parsed.created_at)]>>
        ELSE <<>>

\* CASE e.type WHEN 1 THEN 'repost' WHEN 2 THEN 'like' WHEN 3 THEN 'quote'
TypeName(t) ==
    CASE t = 1 -> "repost"
      [] t = 2 -> "like"
      [] t = 3 -> "quote"
      [] OTHER -> "unknown"

TypeRankQuoteFirst(type) ==
    CASE type = "quote" -> 1
      [] type = "like" -> 2
      [] type = "repost" -> 3
      [] type = "comment" -> 4
      [] OTHER -> 0

\* CTE enriched, column type_rank
TypeRank(type) ==
    CASE type = "like" -> 1
      [] type = "repost" -> 2
      [] type = "comment" -> 3
      [] type = "quote" -> 4
      [] OTHER -> 0

\* CTE base: engagement rows and comment-shaped posts created in [since, until)
Base(since, until) ==
    {[type |-> TypeName(engagement[u].type), event_uri |-> u,
      subject_uri |-> engagement[u].subjectUri, author_did |-> engagement[u].author,
      created_at |-> engagement[u].createdAt] :
        u \in {x \in DOMAIN engagement :
                 engagement[x].createdAt >= since /\ engagement[x].createdAt < until}}
    \cup
    {[type |-> "comment", event_uri |-> u,
      subject_uri |-> post[u].rootUri, author_did |-> post[u].author,
      created_at |-> post[u].createdAt] :
        u \in {x \in DOMAIN post :
                 /\ post[x].rootUri # NoUri
                 /\ post[x].createdAt >= since /\ post[x].createdAt < until}}

\* CTE enriched: split_part(subject_uri, '/', 3) in (publisherDids); EXISTS subscriber
is_publisher_target(r) == r.subject_uri # NoUri /\ r.subject_uri[3] \in NewsbotDids
is_subscriber_actor(r) == r.author_did \in subscriber

\* scopeFilter, and otherScopeFilter under the name "other"
ScopeFilter(scope, r) ==
    CASE scope = "publisher" -> is_publisher_target(r)
      [] scope = "subscriber" -> is_subscriber_actor(r)
      [] scope = "subscriber_on_publisher" -> is_publisher_target(r) /\ is_subscriber_actor(r)
      [] scope = "other" -> is_subscriber_actor(r) /\ ~is_publisher_target(r)
      [] OTHER -> is_publisher_target(r) \/ is_subscriber_actor(r)

\* CTE scoped: typeFilter AND subscriberDidFilter AND scopeFilter
Scoped(filters, scope) ==
    {r \in Base(filters.since, filters.until) :
        /\ r.type \in filters.types
        /\ filters.subscriberDid = NoParam \/ r.author_did = filters.subscriberDid[1]
        /\ ScopeFilter(scope, r)}

\* CTE deduped: DISTINCT ON (event_uri) ... ORDER BY event_uri, created_at DESC,
\* type_rank DESC keeps the first row of each event_uri
DistinctOnBefore(r, q) ==
    \/ r.created_at > q.created_at
    \/ r.created_at = q.created_at /\ TypeRank(r.type) > TypeRank(q.type)
Deduped(S) ==
    {CHOOSE r \in S : r.event_uri = u /\
                      \A q \in S : q.event_uri = u => ~DistinctOnBefore(q, r) :
        u \in {x.event_uri : x \in S}}

\* cursorFilter: (created_at < c.created_at OR (created_at = c.created_at AND
\* event_uri < c.event_uri)); no cursor, no filter
KeysetAnyRow(d, cursor) == TRUE
KeysetAfter(d, cursor) ==
    \/ cursor = <<>>
    \/ d.created_at < cursor[1].created_at
    \/ d.created_at = cursor[1].created_at /\ UriLess(d.event_uri, cursor[1].event_uri)

\* ORDER BY d.created_at DESC, d.event_uri DESC
ExportOrder(S) ==
    LET before(r, q) == \/ r.created_at > q.created_at
                        \/ r.created_at = q.created_at /\ UriLess(q.event_uri, r.event_uri)
    IN  [i \in 1..Cardinality(S) |->
            CHOOSE r \in S : Cardinality({q \in S : before(q, r)}) = i - 1]

\* the export statement: ... FROM deduped d WHERE cursorFilter ORDER BY ...
\* LIMIT limit + 1 OFFSET offset
ExportQuery(filters, scope, cursor, offset) ==
    OffsetLimit(ExportOrder({d \in Deduped(Scoped(filters, scope)) : KeysetAfter(d, cursor)}),
                offset, filters.limit + 1)

\* the page cut from limit + 1 rows: the events and, when a further row exists,
\* the cursor of the last event kept
ExportPage(rows, limit, filterSig) ==
    LET events == SubSeq(rows, 1, Min(limit, Len(rows)))
    IN  [events |-> events,
         next_cursor |->
            IF Len(rows) > limit
            THEN <<encodeEngagementCursor([created_at |-> events[Len(events)].created_at,
                                           event_uri |-> events[Len(events)].event_uri,
                                           filter_sig |-> filterSig])>>
            ELSE NoParam]

\* query-parameter values as the handler receives them: a timestamp parameter is
\* the ISO text of an instant ([iso |-> t]) or some other text ([text |-> ..]); page
\* and limit are character sequences; the others are strings
Iso(t) == [iso |-> t]
EmptyText == [text |-> ""]

\* parseIsoOrThrow: <<timestamp>>, or <<>> where it throws
parseIsoOrThrow(raw) == IF "iso" \in DOMAIN raw THEN <<toISOString(raw.iso)>> ELSE <<>>

\* parseNonNegInt: <<n>>, or <<>> for undefined (empty, NaN or negative)
parseNonNegInt(raw) ==
    IF raw = <<>> THEN <<>>
    ELSE IF parseInt(raw).nan \/ parseInt(raw).n < 0 THEN <<>>
    ELSE <<parseInt(raw).n>>

\* parseDidParam: <<did>> for a text that starts with did: and has at least six
\* characters (here: the DIDs of the model), or <<>> for undefined
parseDidParam(raw) == IF raw \in Dids THEN <<raw>> ELSE <<>>

\* parseBoolParam: true|false|1|0, or <<>> for undefined
parseBoolParam(raw) ==
    CASE raw \in {"true", "1"} -> <<TRUE>>
      [] raw \in {"false", "0"} -> <<FALSE>>
      [] OTHER -> <<>>

\* value of a parse; where the parse failed the handler throws before it reads
\* the value, which here is the default
ParsedOr(raw, parsed, default) ==
    IF raw = NoParam \/ parsed = <<>> THEN default ELSE parsed[1]


\* `req.query?.since ? parseIsoOrThrow(..) : defaultSince`: the empty text is falsy
TimeGiven(param) == param # NoParam /\ param[1] # EmptyText
TimeParam(param, default) ==
    IF TimeGiven(param) THEN ParsedOr(param, parseIsoOrThrow(param[1]), default)
    ELSE default

\* the filters of a request, defaults applied: since and until default to the last
\* 24 hours, scope to union, limit to 1000, types to all four, include to false
ExportFilters(req) ==
    [since |-> TimeParam(req.since, now - exportDefaultWindow),
     until |-> TimeParam(req.until, now),
     scope |-> IF req.scope = NoParam THEN "union" ELSE req.scope[1],
     limit |-> IF req.limit = NoParam THEN DefaultLimit
               ELSE ParsedOr(req.limit, parseNonNegInt(req.limit[1]), DefaultLimit),
     types |-> IF req.types = NoParam THEN ExportTypes ELSE Range(req.types[1]),
     subscriberDid |-> IF req.subscriber_did = NoParam THEN NoParam
                       ELSE parseDidParam(req.subscriber_did[1]),
     includeOtherSubscriberActivity |->
         IF req.include = NoParam THEN FALSE
         ELSE ParsedOr(req.include, parseBoolParam(req.include[1]), FALSE)]

CursorMatchesAlways(cursor, filterSig) == TRUE
\* cursor.filter_sig !== filterSig is the mismatch
CursorMatches(cursor, filterSig) == cursor.filter_sig = filterSig

\* the try block of the handler: the request's values, or the 400 it answers
ExportValidate(req) ==
    LET useCursor == req.cursor # NoParam
        otherCursorProvided == req.other_cursor # NoParam
        filters == ExportFilters(req)
        since == filters.since
        until == filters.until
        scope == filters.scope
        page  == IF useCursor \/ req.page = NoParam THEN 0
                 ELSE ParsedOr(req.page, parseNonNegInt(req.page[1]), 0)
        limit == filters.limit
        include == filters.includeOtherSubscriberActivity
        types == filters.types
        filterSig == buildFilterSignature(filters)
        cursor == IF useCursor THEN decodeEngagementCursor(req.cursor[1]) ELSE <<>>
        otherCursor == IF otherCursorProvided
                       THEN decodeEngagementCursor(req.other_cursor[1]) ELSE <<>>
        bad(message) == [ok |-> FALSE, message |-> message]
    IN  IF TimeGiven(req.since) /\ parseIsoOrThrow(req.since[1]) = <<>>
        THEN bad("since must be a valid ISO timestamp string")
        ELSE IF TimeGiven(req.until) /\ parseIsoOrThrow(req.until[1]) = <<>>
        THEN bad("until must be a valid ISO timestamp string")
        ELSE IF since >= until THEN bad("since must be earlier than until")
        ELSE IF scope \notin ExportScopes THEN bad("scope must be one of")
        ELSE IF ~useCursor /\ req.page # NoParam /\ parseNonNegInt(req.page[1]) = <<>>
             THEN bad("page must be a non-negative integer")
        ELSE IF req.limit # NoParam /\ parseNonNegInt(req.limit[1]) = <<>>
             THEN bad("limit must be a non-negative integer")
        ELSE IF limit <= 0 THEN bad("limit must be a positive integer")
        ELSE IF limit > MaxLimit THEN bad("limit must be <= 5000")
        ELSE IF req.subscriber_did # NoParam /\ filters.subscriberDid = <<>>
             THEN bad("subscriber_did must be a DID (did:...)")
        ELSE IF req.include # NoParam /\ parseBoolParam(req.include[1]) = <<>>
             THEN bad("include_other_subscriber_activity must be true|false|1|0")
        ELSE IF otherCursorProvided /\ ~include
             THEN bad("other_cursor requires include_other_subscriber_activity=true")
        ELSE IF ~(types \subseteq ExportTypes) THEN bad("types contains invalid value")
        ELSE IF useCursor /\ cursor = <<>> THEN bad("cursor is invalid")
        ELSE IF useCursor /\ ~CursorMatches(cursor[1], filterSig)
             THEN bad("cursor does not match request filters")
        ELSE IF otherCursorProvided /\ otherCursor = <<>> THEN bad("cursor is invalid")
        ELSE IF otherCursorProvided /\ ~CursorMatches(otherCursor[1], filterSig)
             THEN bad("other_cursor does not match request filters")
        ELSE [ok |-> TRUE, filters |-> filters, filterSig |-> filterSig, page |-> page,
              cursor |-> cursor, otherCursor |-> otherCursor, useCursor |-> useCursor,
              useOtherCursor |-> include /\ (otherCursorProvided \/ useCursor)]

\* otherCursorForFilter = useOtherCursor ? otherCursor ?? cursor : null
OtherCursorOwnOnly(v) == v.otherCursor
OtherCursorForFilter(v) ==
    IF v.useOtherCursor
    THEN (IF v.otherCursor # <<>> THEN v.otherCursor ELSE v.cursor)
    ELSE <<>>

\* offset = useCursor ? 0 : page * limit; otherOffset = useOtherCursor ? 0 : offset
ExportOffset(v) == IF v.useCursor THEN 0 ELSE v.page * v.filters.limit
OtherOffset(v) == IF v.useOtherCursor THEN 0 ELSE ExportOffset(v)

\* the secondary report is built for these requests only
HasOtherReport(v) ==
    /\ v.filters.includeOtherSubscriberActivity
    /\ v.filters.scope \in {"publisher", "subscriber_on_publisher"}

PrimaryRows(v) == ExportQuery(v.filters, v.filters.scope, v.cursor, ExportOffset(v))
OtherRows(v) == ExportQuery(v.filters, "other", OtherCursorForFilter(v), OtherOffset(v))

ExportIdle == [pc |-> "idle"]

\* the handler up to its first await: api-key check and validation
ExportStart(req) ==
    IF ~req.apiKeyValid
    THEN [pc |-> "responded", req |-> req, queries |-> 0, res |-> [status |-> 401]]
    ELSE LET v == ExportValidate(req)
         IN  IF ~v.ok
             THEN [pc |-> "responded", req |-> req, queries |-> 0,
                   res |-> [status |-> 400, message |-> v.message]]
             ELSE [pc |-> "primary", req |-> req, queries |-> 0, v |-> v]

BeginExport(req) ==
    /\ exp # <<>>
    /\ exp.pc = "idle"
    /\ exp' = ExportStart(req)
    /\ UNCHANGED <<dbVars, env, now, scopeVars, he, stream, agg, evt, exceptExport>>

\* the primary statement returns
ExportPrimaryQuery ==
    /\ exp # <<>>
    /\ exp.pc = "primary"
    /\ LET page == ExportPage(PrimaryRows(exp.v), exp.v.filters.limit, exp.v.filterSig)
           res == [status |-> 200, events |-> page.events, next_cursor |-> page.next_cursor,
                   other |-> <<>>]
       IN  exp' = [exp EXCEPT !.pc = IF HasOtherReport(exp.v) THEN "other" ELSE "responded",
                              !.queries = @ + 1] @@ [res |-> res]
    /\ UNCHANGED <<dbVars, env, now, scopeVars, he, stream, agg, evt, exceptExport>>

\* the secondary statement returns
ExportOtherQuery ==
    /\ exp # <<>>
    /\ exp.pc = "other"
    /\ LET page == ExportPage(OtherRows(exp.v), exp.v.filters.limit, exp.v.filterSig)
       IN  exp' = [exp EXCEPT !.pc = "responded", !.queries = @ + 1,
                              !.res.other = <<[events |-> page.events,
                                               next_cursor |-> page.next_cursor]>>]
    /\ UNCHANGED <<dbVars, env, now, scopeVars, he, stream, agg, evt, exceptExport>>

\* the response has been sent and the handler has returned
ExportReturn ==
    /\ exp # <<>>
    /\ exp.pc = "responded"
    /\ exp' = ExportIdle
    /\ UNCHANGED <<dbVars, env, now, scopeVars, he, stream, agg, evt, exceptExport>>

\* cursors a client can hold: issued for one of these filter sets, at one of these rows
TokenFilter(scope, include) ==
    [since |-> 0, until |-> 5, scope |-> scope, limit |-> 1, types |-> ExportTypes,
     subscriberDid |-> NoParam, includeOtherSubscriberActivity |-> include]
TokenRows == {[created_at |-> 2, event_uri |-> MkUri("S", RepostColl, "b")],
              [created_at |-> 3, event_uri |-> uS2]}
ExportTokens(filterSets) ==
    {encodeEngagementCursor([created_at |-> r.created_at, event_uri |-> r.event_uri,
                             filter_sig |-> buildFilterSignature(f)]) :
        r \in TokenRows, f \in filterSets}
    \cup {[base64url |-> [json |-> [x |-> 1]]]}

PrimaryCursors ==
    {NoParam} \cup {<<t>> : t \in ExportTokens({TokenFilter("publisher", TRUE),
                                               TokenFilter("subscriber", FALSE)})}
OtherCursors ==
    {NoParam} \cup {<<t>> : t \in ExportTokens({TokenFilter("publisher", TRUE)})}

\* a well-formed request, and the requests that differ from it in one parameter
\* value (with and without a cursor that fits the request)
PlainRequest ==
    [apiKeyValid |-> TRUE, since |-> <<Iso(0)>>, until |-> <<Iso(5)>>,
     scope |-> <<"publisher">>, page |-> NoParam, limit |-> <<<<"1">>>>,
     subscriber_did |-> NoParam, include |-> <<"true">>, types |-> NoParam,
     cursor |-> NoParam, other_cursor |-> NoParam]
OddTimes == {<<[text |-> "x"]>>, <<EmptyText>>}
OddNumbers ==
    {<<<<>>>>, <<<<"x">>>>, <<<<"-", "1">>>>, <<<<"0">>>>, <<<<"2", "x">>>>,
     <<<<"1", ".", "5">>>>, <<<<"5", "0", "0", "0">>>>, <<<<"5", "0", "0", "1">>>>}
OddRequests ==
    LET one ==
            {[PlainRequest EXCEPT !.since = v] : v \in OddTimes}
            \cup {[PlainRequest EXCEPT !.until = v] : v \in OddTimes}
            \cup {[PlainRequest EXCEPT !.scope = <<"all">>]}
            \cup {[PlainRequest EXCEPT !.page = v] : v \in OddNumbers}
            \cup {[PlainRequest EXCEPT !.limit = v] : v \in OddNumbers}
            \cup {[PlainRequest EXCEPT !.subscriber_did = <<v>>] : v \in {"S", "handle"}}
            \cup {[PlainRequest EXCEPT !.include = <<v>>] : v \in {"1", "0", "false", "yes"}}
            \cup {[PlainRequest EXCEPT !.types = <<v>>] :
                      v \in {<<"share">>, <<"like", "share">>}}
    IN  one \cup {[r EXCEPT !.cursor = <<t>>] :
                    r \in one, t \in ExportTokens({TokenFilter("publisher", TRUE)})}

ExportRequests ==
    {[apiKeyValid |-> TRUE, since |-> w[1], until |-> w[2], scope |-> sc, page |-> pg,
      limit |-> lim, subscriber_did |-> NoParam, include |-> inc, types |-> ty,
      cursor |-> c, other_cursor |-> oc] :
        w \in {<<NoParam, NoParam>>, <<<<Iso(0)>>, <<Iso(5)>>>>, <<<<Iso(3)>>, <<Iso(3)>>>>},
        sc \in {NoParam, <<"publisher">>, <<"subscriber">>, <<"subscriber_on_publisher">>},
        pg \in {NoParam, <<<<"1">>>>},
        lim \in {<<<<"1">>>>, <<<<"2">>>>},
        inc \in {NoParam, <<"true">>},
        ty \in {NoParam, <<<<"comment">>>>, <<<<"comment", "quote", "comment">>>>},
        c \in PrimaryCursors,
        oc \in OtherCursors}
    \cup
    {[apiKeyValid |-> FALSE, since |-> <<Iso(0)>>, until |-> <<Iso(5)>>, scope |-> NoParam,
      page |-> NoParam, limit |-> <<<<"1">>>>, subscriber_did |-> NoParam,
      include |-> NoParam, types |-> NoParam, cursor |-> c, other_cursor |-> NoParam] :
        c \in {NoParam} \cup {<<t>> : t \in ExportTokens({TokenFilter("publisher", TRUE)})}}
    \cup OddRequests

\* the store: likes, reposts and comments on the publisher's post P1 and outside
\* it, and the subscriber's post S2, a reply under P1 that quotes B's post
InitExport ==
    /\ \E quoteCreatedAt \in {2, 3, 4} :
        /\ post = (uP1 :> ExportPost(uP1, NoUri, 0)) @@ (uB1 :> ExportPost(uB1, NoUri, 0))
                  @@ (uS2 :> ExportPost(uS2, uP1, 3)) @@ (uB2 :> ExportPost(uB2, uB1, 1))
                  @@ (uS3 :> ExportPost(uS3, uB1, 2))
        /\ engagement =
                  (lSP.uri :> ExportEngagement(lSP.uri, uP1, 2, 1))
               @@ (lBP.uri :> ExportEngagement(lBP.uri, uP1, 2, 2))
               @@ (rSB.uri :> ExportEngagement(rSB.uri, uB1, 1, 2))
               @@ (lSA.uri :> ExportEngagement(lSA.uri, uA1, 2, 1))
               @@ (rBP.uri :> ExportEngagement(rBP.uri, uP1, 1, 4))
               @@ (uS2 :> ExportEngagement(uS2, uB1, 3, quoteCreatedAt))
    /\ follows = {<<"S", "A">>}
    /\ subscriber = {"S"}
    /\ sub_state = <<>>
    /\ env = [scoped |-> FALSE, track |-> FALSE, restrict |-> FALSE]
    /\ now = ExportNow
    /\ IdleScope
    /\ he = <<>>
    /\ stream = <<>>
    /\ agg = <<>>
    /\ evt = NoEvt
    /\ binds = NoBinds
    /\ retention = <<>>
    /\ feed = <<>>
    /\ exp = ExportIdle
    /\ request_log = <<>>
    /\ request_posts = {}
    /\ timers = <<>>
    /\ sched = <<>>
    /\ study = <<>>

NextExport ==
    \/ \E req \in ExportRequests : BeginExport(req)
    \/ ExportPrimaryQuery
    \/ ExportOtherQuery
    \/ ExportReturn

SpecExport == InitExport /\ [][NextExport]_vars

(***************************************************************************)
(* C18.  Dedupe of the export lists.                                       *)
(***************************************************************************)
ExportAnswered == exp # <<>> /\ exp.pc = "responded" /\ exp.res.status = 200

\* the lists of an answered request, each with the candidate rows of its query
ExportLists ==
    {[events |-> exp.res.events, candidates |-> Scoped(exp.v.filters, exp.v.filters.scope)]}
    \cup (IF exp.res.other = <<>> THEN {}
          ELSE {[events |-> exp.res.other[1].events,
                 candidates |-> Scoped(exp.v.filters, "other")]})

\* the order the claim names: like < repost < comment < quote
ClaimedRank(type) == CHOOSE i \in 1..4 : <<"like", "repost", "comment", "quote">>[i] = type

\* C18 (as stated): in an export response every event_uri appears at most once,
\* the primary events and the other-subscriber events taken together.
C18_EventUriOnceInResponse ==
    ExportAnswered =>
        LET all == exp.res.events \o
                   (IF exp.res.other = <<>> THEN <<>> ELSE exp.res.other[1].events)
        IN  \A i, j \in DOMAIN all : all[i].event_uri = all[j].event_uri => i = j

\* C18 (amended): within each list of an export response (the primary events, and
\* the other-subscriber events) every event_uri appears at most once, and the row
\* returned for it is a candidate row of that list's query which no candidate row
\* of the same event_uri beats: none has a greater created_at, and none with the
\* same created_at has a higher type rank (like < repost < comment < quote).
C18_DedupeKeepsLatestHighestRank ==
    ExportAnswered =>
        \A l \in ExportLists :
            /\ \A i, j \in DOMAIN l.events :
                  l.events[i].event_uri = l.events[j].event_uri => i = j
            /\ \A i \in DOMAIN l.events :
                  /\ l.events[i] \in l.candidates
                  /\ \A q \in l.candidates :
                        q.event_uri = l.events[i].event_uri =>
                            \/ q.created_at < l.events[i].created_at
                            \/ /\ q.created_at = l.events[i].created_at
                               /\ ClaimedRank(q.type) <= ClaimedRank(l.events[i].type)

\* a reply that is also a quote, both rows created at the same instant and both
\* candidates: the quote row is the one returned
C18_Witness ==
    /\ ExportAnswered
    /\ engagement[uS2].createdAt = post[uS2].createdAt
    /\ Cardinality({r \in Scoped(exp.v.filters, exp.v.filters.scope) : r.event_uri = uS2}) = 2
    /\ \E i \in DOMAIN exp.res.events :
          exp.res.events[i].event_uri = uS2 /\ exp.res.events[i].type = "quote"

(***************************************************************************)
(* C19.  A cursor is bound to the filters it was issued for.               *)
(***************************************************************************)
\* the request carries a well-formed cursor (or other_cursor) whose embedded
\* signature is not the signature of the request's own filters
CarriesForeignCursor(req) ==
    \E raw \in {req.cursor, req.other_cursor} :
        /\ raw # NoParam
        /\ decodeEngagementCursor(raw[1]) # <<>>
        /\ decodeEngagementCursor(raw[1])[1].filter_sig
              # buildFilterSignature(ExportFilters(req))

\* C19: an export request with a valid api-key that carries a cursor whose embedded
\* filter signature differs from the signature of the request's own filters (since,
\* until, scope, limit, set of types, subscriber filter, include flag) is answered
\* 400, and no query has been executed for it.
C19_ForeignCursorRejected ==
    (exp # <<>> /\ exp.pc # "idle" /\ exp.req.apiKeyValid /\ CarriesForeignCursor(exp.req))
        => /\ exp.pc = "responded"
           /\ exp.res.status = 400
           /\ exp.queries = 0

\* a request whose only fault is the cursor: issued for limit 1 and the publisher
\* scope, presented with limit 2
C19_Witness ==
    /\ exp # <<>> /\ exp.pc = "responded"
    /\ exp.req.apiKeyValid
    /\ exp.req.cursor # NoParam /\ exp.req.other_cursor = NoParam
    /\ decodeEngagementCursor(exp.req.cursor[1]) # <<>>
    /\ ExportFilters(exp.req).scope = "publisher"
    /\ ExportFilters(exp.req).limit = 2
    /\ ExportFilters(exp.req).since < ExportFilters(exp.req).until
    /\ exp.res.status = 400
    /\ exp.res.message = "cursor does not match request filters"
    /\ exp.queries = 0

(***************************************************************************)
(* C20.  Pagination of the other-subscriber-activity report.               *)
(***************************************************************************)
\* the secondary page the handler builds for a request it accepts, the store as it is
OtherReportOf(req) ==
    LET v == ExportValidate(req)
    IN  ExportPage(OtherRows(v), v.filters.limit, v.filterSig)

\* the same request with another primary cursor, or none
WithPrimaryCursor(req, c) == [req EXCEPT !.cursor = c]

\* C20: for fixed filters and a fixed store the rows of the other-subscriber-activity
\* report are determined by other_cursor alone: the same request with any other
\* primary cursor, or with none, gets the same secondary rows; and other_next_cursor,
\* when present, encodes the last row of the secondary page.
C20_OtherReportIndependent ==
    (ExportAnswered /\ exp.res.other # <<>>) =>
        /\ \A c \in PrimaryCursors :
              ExportValidate(WithPrimaryCursor(exp.req, c)).ok =>
                  OtherReportOf(WithPrimaryCursor(exp.req, c)).events
                      = exp.res.other[1].events
        /\ exp.res.other[1].next_cursor # NoParam =>
              LET events == exp.res.other[1].events
                  c == decodeEngagementCursor(exp.res.other[1].next_cursor[1])[1]
              IN  /\ c.created_at = events[Len(events)].created_at
                  /\ c.event_uri = events[Len(events)].event_uri

\* a request that pages by its primary cursor and sends no other_cursor and no
\* page: its secondary rows are not the ones the request gets without the cursor
C20_Witness ==
    /\ ExportAnswered /\ exp.res.other # <<>>
    /\ exp.req.cursor # NoParam /\ exp.req.other_cursor = NoParam /\ exp.req.page = NoParam
    /\ exp.res.other[1].events
          # OtherReportOf(WithPrimaryCursor(exp.req, NoParam)).events

\* what does hold: a request that sends other_cursor gets secondary rows that do
\* not change with its primary cursor, and other_next_cursor encodes the last row
\* of every secondary page
OtherCursorSuppliedDecides ==
    (ExportAnswered /\ exp.res.other # <<>>) =>
        /\ exp.req.other_cursor # NoParam =>
              \A c \in PrimaryCursors :
                  ExportValidate(WithPrimaryCursor(exp.req, c)).ok =>
                      OtherReportOf(WithPrimaryCursor(exp.req, c)).events
                          = exp.res.other[1].events
        /\ exp.res.other[1].next_cursor # NoParam =>
              LET events == exp.res.other[1].events
                  c == decodeEngagementCursor(exp.res.other[1].next_cursor[1])[1]
              IN  /\ c.created_at = events[Len(events)].created_at
                  /\ c.event_uri = events[Len(events)].event_uri

(***************************************************************************)
(* C21.  Invalid export parameters.                                        *)
(***************************************************************************)
\* a decimal integer in full: digits only, at least one
IsIntegerText(chars) == chars # <<>> /\ \A i \in DOMAIN chars : IsDigit(chars[i])

\* the request carries a parameter value of the kinds the claim lists
HasInvalidParameter(req) ==
    \/ \E p \in {req.since, req.until} : p # NoParam /\ "iso" \notin DOMAIN p[1]
    \/ /\ req.since # NoParam /\ req.until # NoParam
       /\ "iso" \in DOMAIN req.since[1] /\ "iso" \in DOMAIN req.until[1]
       /\ req.since[1].iso >= req.until[1].iso
    \/ req.scope # NoParam /\ req.scope[1] \notin ExportScopes
    \/ \E p \in {req.page, req.limit} : p # NoParam /\ ~IsIntegerText(p[1])
    \/ /\ req.limit # NoParam /\ IsIntegerText(req.limit[1])
       /\ DigitsValue(req.limit[1]) \notin 1..MaxLimit
    \/ req.subscriber_did # NoParam /\ req.subscriber_did[1] \notin Dids
    \/ req.types # NoParam /\ ~(Range(req.types[1]) \subseteq ExportTypes)
    \/ \E c \in {req.cursor, req.other_cursor} :
          c # NoParam /\ decodeEngagementCursor(c[1]) = <<>>

\* C21: every export request with a valid api-key and an invalid parameter value
\* (unparseable since or until, since not earlier than until, unknown scope, page or
\* limit that is not a non-negative integer, limit 0 or above 5000, malformed
\* subscriber_did, unknown type, malformed cursor) is answered 400 with a message,
\* and no query has been executed for it.
C21_InvalidParameterRejected ==
    (exp # <<>> /\ exp.pc # "idle" /\ exp.req.apiKeyValid /\ HasInvalidParameter(exp.req))
        => /\ exp.pc = "responded"
           /\ exp.res.status = 400
           /\ exp.res.message # ""
           /\ exp.queries = 0

\* limit=2x is answered 200 with pages of two events
C21_Witness ==
    /\ ExportAnswered
    /\ exp.req.limit = <<<<"2", "x">>>>
    /\ exp.v.filters.limit = 2
    /\ Len(exp.res.events) = 2
    /\ exp.queries > 0

(***************************************************************************)
(* C22.  Engagement rows of a deleted post.                                *)
(***************************************************************************)
\* C22: once handleEvent has applied a batch that deletes a post, and before any
\* other write, no engagement row whose subjectUri is that post is stored.
C22_NoEngagementOnDeletedPost ==
    (evt.n > 0 /\ evt.clean) =>
        \A u \in Range(postsToDelete(evt.batch)) :
            \A e \in DOMAIN engagement : engagement[e].subjectUri # u

\* A's post was liked, then deleted upstream: the post row is gone, the like row
\* that names it as subject is still stored
C22_Witness ==
    /\ evt.n > 0 /\ evt.clean
    /\ evt.batch = Batch(<<>>, <<Delete(uA1)>>, <<>>, <<>>, <<>>, <<>>)
    /\ uA1 \notin DOMAIN post
    /\ lBA.uri \in DOMAIN engagement
    /\ engagement[lBA.uri].subjectUri = uA1

(***************************************************************************)
(* C23.  The cursor write is an upsert.                                    *)
(***************************************************************************)
\* C23: every completed cursor write leaves the stored cursor equal to the written
\* sequence number, whether the stream had no row (the row is created) or had one
\* (its value is replaced); the stored cursor is at all times the last one written,
\* crashes included.
C23_CursorWriteUpserts ==
    /\ [][(he # <<>> /\ he[1].pc = "done" /\ he' = <<>> /\ stream'.conn = "up")
             => sub_state' = <<he[1].seq>>]_vars
    /\ [](sub_state = stream.written)

\* consumption started at commit 2 with no stored cursor; the write of 2 created
\* the row and the write of 3 replaced its value
C23_Witness ==
    /\ stream.origin = 2
    /\ stream.written = <<3>>
    /\ sub_state = <<3>>

(***************************************************************************)
(* C24.  buildFeed returns before the audit-log write has started, and a   *)
(* failing insert into request_log or request_posts changes neither the    *)
(* response nor anything outside the callback.                             *)
(***************************************************************************)
\* a step of an audit-log callback
LogStep ==
    \E i \in DOMAIN timers, succeeds \in BOOLEAN :
        LogRequestInsert(i, succeeds) \/ LogPostsInsert(i, succeeds)

\* C24: buildFeed resolves with its callback still scheduled and both log tables
\* untouched; no step of a callback, failed or not, changes the response; and no
\* error of a callback escapes it.
C24_AuditLogNeverAffectsResponse ==
    /\ [][(feed.pc = "queries" /\ feed'.pc = "responded") =>
             /\ timers' = Append(timers, timers'[Len(timers')])
             /\ timers'[Len(timers')].pc = "scheduled"
             /\ timers'[Len(timers')].feed = feed'.res.feed
             /\ request_log' = request_log
             /\ request_posts' = request_posts]_vars
    /\ [][LogStep => feed' = feed]_vars
    /\ [](\A i \in DOMAIN timers : timers[i].pc \in {"scheduled", "posts"})

\* a response of three posts stands although its request_log insert failed
C24_Witness ==
    /\ Responded
    /\ Len(feed.res.feed) = 3
    /\ feed.res.cursor = <<"2">>
    /\ timers = <<>>
    /\ request_log = <<>>

(***************************************************************************)
(* C25.  The audit record of a request: one request_log row and one        *)
(* request_posts row per returned feed entry.                              *)
(***************************************************************************)
\* the request_posts rows of a request_log row
ChildrenOf(r) == {p \in request_posts : p.request_id = r.id}

\* the callback that wrote the row has ended
WriteEnded(r) ==
    \A i \in DOMAIN timers : timers[i].pc = "posts" => timers[i].request_id # r.id

\* C25: every request_log row whose callback has ended has exactly result_count
\* children, one at each position 1..result_count, and result_count is
\* publisher_count + follows_count.
C25_LogRowReconstructsResponse ==
    \A k \in DOMAIN request_log :
        LET r == request_log[k]
        IN  WriteEnded(r) =>
              /\ r.result_count = r.publisher_count + r.follows_count
              /\ Cardinality(ChildrenOf(r)) = r.result_count
              /\ \A i \in 1..r.result_count :
                    Cardinality({p \in ChildrenOf(r) : p.position = i}) = 1

\* a row that logs three posts, written by a callback that has ended, has no
\* children
C25_Witness ==
    /\ timers = <<>>
    /\ Len(request_log) = 1
    /\ request_log[1].result_count = 3
    /\ request_log[1].publisher_count = 1
    /\ request_log[1].follows_count = 2
    /\ ChildrenOf(request_log[1]) = {}

\* what does hold: the counts of a row agree, and the children of a row are
\* entries of the feed it logs at their positions
LogRowCountsAgree ==
    \A k \in DOMAIN request_log :
        /\ request_log[k].id = k
        /\ request_log[k].result_count =
              request_log[k].publisher_count + request_log[k].follows_count
        /\ Cardinality(ChildrenOf(request_log[k])) \in {0, request_log[k].result_count}
        /\ \A p \in ChildrenOf(request_log[k]) : p.position \in 1..request_log[k].result_count

(***************************************************************************)
(* C28.  Subscriber-only mode of the getFeedSkeleton handler.              *)
(***************************************************************************)
\* C28: a request handled in subscriber-only mode reaches the feed algorithm
\* only when it is authenticated as a DID of the subscriber table, and then with
\* that DID; every other request is answered with an empty feed and leaves the
\* audit log and its pending writes as they were.  Every audit record names a
\* subscriber or the open-mode default requester.
C28_SubscriberOnlyGate ==
    /\ [][\A auth \in FeedAuths, requested \in SkeletonLimits \cup FeedLimits,
             cursor \in SkeletonCursors \cup FeedCursors :
               GetFeedSkeleton(TRUE, auth, requested, cursor) =>
                   IF auth # NoAuth /\ auth[1] \in subscriber
                   THEN feed'.pc = "queries" /\ feed'.requesterDid = auth[1]
                   ELSE /\ feed'.pc = "denied"
                        /\ feed'.res.feed = <<>>
                        /\ UNCHANGED logVars]_vars
    /\ [](\A i \in DOMAIN timers : timers[i].requesterDid \in subscriber \cup {defaultDid})
    /\ [](\A k \in DOMAIN request_log :
              request_log[k].requester_did \in subscriber \cup {defaultDid})

\* an authenticated requester that is no subscriber has been turned away after a
\* subscriber's request was logged
C28_Witness ==
    /\ feed.pc = "denied"
    /\ feed.auth = <<"A">>
    /\ "A" \notin subscriber
    /\ feed.res.feed = <<>>
    /\ timers = <<>>
    /\ Len(request_log) = 1
    /\ request_log[1].requester_did = "S"

(***************************************************************************)
(* C30.  A client requests the first page and follows each returned cursor *)
(* until a response carries none, over a store and a clock that do not     *)
(* change.                                                                 *)
(***************************************************************************)
\* the response in hand ends such a sequence of requests
SessionComplete ==
    /\ Responded
    /\ feed.session # NoSession
    /\ feed.res.cursor = NoCursor

\* every post the client has received, page after page
SessionPosts == Flatten(feed.session[1].pages)

TimesReturned(u) == Cardinality({i \in DOMAIN SessionPosts : SessionPosts[i] = u})

\* C30: when the last response carries no cursor, every candidate of the
\* publisher stream and every candidate of the network stream has been returned
\* exactly once.
C30_CursorsCoverEveryCandidate ==
    SessionComplete =>
        \A u \in PublisherCandidates(feed.timeLimit)
                   \cup FollowsCandidates(feed.timeLimit, feed.requesterFollows) :
            TimesReturned(u) = 1

\* pages of 3 for subscriber S over three publisher and two network candidates:
\* three requests, and the publisher candidate ranked second is never returned
C30_Witness ==
    /\ SessionComplete
    /\ feed.requesterDid = "S"
    /\ feed.params.limit = 3
    /\ Len(feed.session[1].pages) = 3
    /\ Cardinality(PublisherCandidates(feed.timeLimit)) = 3
    /\ LET ranked == InQueryOrder(PublisherCandidates(feed.timeLimit))
       IN  /\ TimesReturned(ranked[1]) = 1
           /\ TimesReturned(ranked[2]) = 0
           /\ TimesReturned(ranked[3]) = 1
    /\ \A u \in FollowsCandidates(feed.timeLimit, feed.requesterFollows) :
           TimesReturned(u) = 1

\* what does hold: no post is returned on two pages, and every candidate of the
\* network stream is returned
NetworkStreamCovered ==
    SessionComplete =>
        /\ \A u \in DOMAIN post : TimesReturned(u) <= 1
        /\ \A u \in FollowsCandidates(feed.timeLimit, feed.requesterFollows) :
               TimesReturned(u) = 1

(***************************************************************************)
(* The interval schedulers (setupFollowsUpdateScheduler,                   *)
(* setupEngagmentUpdateScheduler, setupRetentionScheduler).  A scheduler   *)
(* is a setInterval timer whose callback starts a run of its job and       *)
(* attaches a catch handler to the promise; setInterval does not wait for  *)
(* a run, so runs of one job can overlap.  A run either completes or       *)
(* fails at some statement.                                                *)
(***************************************************************************)
Schedulers == {"follows", "engagement", "retention"}
\* the daily full follow sync runs from a timeout and then from an interval of its own
Jobs == Schedulers \cup {"fullsync"}

\* the runs a scheduler starts in one behaviour
MaxRuns == 2

NotSetUp == [armed |-> FALSE, started |-> 0, running |-> 0, logged |-> 0]

\* mutant: the promise of a run has no catch handler; the unhandled rejection
\* ends the process and with it every timer
RejectionUnhandled(sc, s) == [sc EXCEPT !.exited = TRUE]

\* .catch(err => console.error(...)) of the scheduler
RejectionCaught(sc, s) == [sc EXCEPT !.timer[s].logged = @ + 1]

\* whether a failing statement rejects the promise of the run:
\* updateAllSubscriberFollows catches and logs inside, updateEngagement
\* rethrows from its catch, runRetentionOnce has no catch
Rejects(s) == s \in {"engagement", "retention"}

\* the callback of the timer (and the immediate run of the setup): start a run
StartScheduledRun(sc, s) ==
    [sc EXCEPT !.timer[s].started = @ + 1, !.timer[s].running = @ + 1]

\* setup...Scheduler(db, intervalMs, runImmediately)
SetupScheduler(s, runImmediately) ==
    /\ sched # <<>>
    /\ ~sched.exited
    /\ ~sched.stopped
    /\ ~sched.timer[s].armed
    /\ LET armed == [sched EXCEPT !.timer[s].armed = TRUE,
                                  !.activeTimers = Append(@, s)]
       IN  sched' = IF runImmediately THEN StartScheduledRun(armed, s) ELSE armed
    /\ UNCHANGED <<dbVars, env, now, scopeVars, he, stream, agg, evt, exceptSched>>

\* the interval elapses
IntervalTick(s) ==
    /\ sched # <<>>
    /\ ~sched.exited
    /\ sched.timer[s].armed
    /\ sched.timer[s].started < MaxRuns
    /\ sched' = StartScheduledRun(sched, s)
    /\ UNCHANGED <<dbVars, env, now, scopeVars, he, stream, agg, evt, exceptSched>>

\* a run ends: it completes, or one of its statements fails
RunSettles(s, fails) ==
    /\ sched # <<>>
    /\ ~sched.exited
    /\ sched.timer[s].running > 0
    /\ LET ended == [sched EXCEPT !.timer[s].running = @ - 1]
       IN  sched' = IF ~fails THEN ended
                    ELSE IF Rejects(s) THEN RejectionCaught(ended, s)
                    ELSE [ended EXCEPT !.timer[s].logged = @ + 1]
    /\ UNCHANGED <<dbVars, env, now, scopeVars, he, stream, agg, evt, exceptSched>>

\* setupDailyFullSyncScheduler: a timeout until the next 4:00 AM, which is not
\* put on activeTimers, and a placeholder timeout of 0 ms, which is
SetupDailyFullSync ==
    /\ sched # <<>>
    /\ ~sched.exited
    /\ ~sched.stopped
    /\ sched.firstRun = "unset"
    /\ sched' = [sched EXCEPT !.firstRun = "pending",
                              !.activeTimers = Append(@, "placeholder")]
    /\ UNCHANGED <<dbVars, env, now, scopeVars, he, stream, agg, evt, exceptSched>>

\* the 4:00 AM timeout fires: the first full sync starts, and the daily interval
\* is created and pushed on activeTimers
FirstFullSyncFires ==
    /\ sched # <<>>
    /\ ~sched.exited
    /\ sched.firstRun = "pending"
    /\ sched' = [StartScheduledRun(sched, "fullsync") EXCEPT
                    !.firstRun = "fired",
                    !.timer["fullsync"].armed = TRUE,
                    !.activeTimers = Append(@, "daily")]
    /\ UNCHANGED <<dbVars, env, now, scopeVars, he, stream, agg, evt, exceptSched>>

\* the job whose interval a timer id of activeTimers belongs to; the placeholder
\* belongs to none
JobOfTimer(id) == IF id = "daily" THEN "fullsync" ELSE id

\* stopAllSchedulers: clearInterval on every id of activeTimers, then activeTimers = []
StopAllSchedulers ==
    /\ sched # <<>>
    /\ ~sched.exited
    /\ ~sched.stopped
    /\ sched' = [sched EXCEPT
                    !.timer = [j \in Jobs |->
                                 IF \E i \in DOMAIN sched.activeTimers :
                                        JobOfTimer(sched.activeTimers[i]) = j
                                 THEN [sched.timer[j] EXCEPT !.armed = FALSE]
                                 ELSE sched.timer[j]],
                    !.activeTimers = <<>>,
                    !.stopped = TRUE]
    /\ UNCHANGED <<dbVars, env, now, scopeVars, he, stream, agg, evt, exceptSched>>

InitSched ==
    /\ post = EmptyTable
    /\ engagement = EmptyTable
    /\ follows = {}
    /\ subscriber = {}
    /\ sub_state = <<>>
    /\ env = [scoped |-> FALSE, track |-> FALSE, restrict |-> FALSE]
    /\ now = 0
    /\ IdleScope
    /\ he = <<>>
    /\ stream = <<>>
    /\ agg = <<>>
    /\ evt = NoEvt
    /\ binds = NoBinds
    /\ retention = <<>>
    /\ feed = <<>>
    /\ exp = <<>>
    /\ request_log = <<>>
    /\ request_posts = {}
    /\ timers = <<>>
    /\ study = <<>>
    /\ sched = [timer |-> [s \in Jobs |-> NotSetUp], exited |-> FALSE,
                activeTimers |-> <<>>, firstRun |-> "unset", stopped |-> FALSE]

NextSched ==
    \/ \E s \in Schedulers, runImmediately \in BOOLEAN : SetupScheduler(s, runImmediately)
    \/ \E s \in Jobs : IntervalTick(s)
    \/ \E s \in Jobs, fails \in BOOLEAN : RunSettles(s, fails)
    \/ SetupDailyFullSync
    \/ FirstFullSyncFires
    \/ StopAllSchedulers

SpecSched == InitSched /\ [][NextSched]_vars

(***************************************************************************)
(* C26.  A failed scheduled run is caught and logged; its scheduler and    *)
(* the other schedulers go on.                                             *)
(***************************************************************************)
\* a run of scheduler s has failed in this step
RunFailed(s) == sched'.exited \/ sched'.timer[s].logged > sched.timer[s].logged

\* C26: when a run of a scheduler fails, the error is logged once, the process
\* keeps running, every timer stays armed, the other schedulers' state is
\* untouched, and the failed scheduler's next tick can fire.
C26_FailedRunIsContained ==
    /\ [][\A s \in Schedulers : RunFailed(s) =>
             /\ ~sched'.exited
             /\ sched'.timer[s].logged = sched.timer[s].logged + 1
             /\ sched'.timer[s].armed = sched.timer[s].armed
             /\ sched'.timer[s].started = sched.timer[s].started
             /\ \A o \in Schedulers \ {s} : sched'.timer[o] = sched.timer[o]]_vars
    /\ [](\A s \in Schedulers :
              (sched.timer[s].armed /\ sched.timer[s].started < MaxRuns)
                  => ENABLED IntervalTick(s))

\* the first run of the engagement scheduler and of the retention scheduler
\* failed, both schedulers started a second run, and the follows scheduler is
\* armed with no failure
C26_Witness ==
    /\ ~sched.exited
    /\ sched.timer["engagement"] = [armed |-> TRUE, started |-> 2, running |-> 1, logged |-> 1]
    /\ sched.timer["retention"] = [armed |-> TRUE, started |-> 2, running |-> 1, logged |-> 1]
    /\ sched.timer["follows"] = [armed |-> TRUE, started |-> 1, running |-> 0, logged |-> 0]

(***************************************************************************)
(* C27.  The TTL of the scope cache (SpecScope).                           *)
(***************************************************************************)
\* caller c invokes getIngestionScope in this step
Calls(c) == callers[c].pc \in {"idle", "done"} /\ callers'[c] # callers[c]

\* a cached scope exists and is younger than the refresh interval
CachedScopeYoung == cached.valid /\ now - cached.loadedAtMs < allowlistRefreshMs

\* C27: a call that finds a cached scope younger than the refresh interval
\* returns it at once and issues no query; a call that finds no such scope is
\* never answered from the cache: it awaits a refresh, the one marked in flight
\* or one it starts, and returns that refresh's scope or fails with its error.
C27_CacheHonoursTtl ==
    /\ [][\A c \in Callers : Calls(c) =>
             IF CachedScopeYoung
             THEN /\ callers'[c].pc = "done"
                  /\ callers'[c].joined = 0
                  /\ callers'[c].result = <<"ok", cached.scope>>
                  /\ UNCHANGED <<refreshes, refreshInFlight, cached>>
             ELSE /\ callers'[c].pc \in {"awaitOwn", "awaitShared"}
                  /\ callers'[c].result = <<>>
                  /\ callers'[c].joined \in DOMAIN refreshes'
                  /\ refreshInFlight' = <<callers'[c].joined>>]_vars
    /\ [](\A c \in Callers :
              (callers[c].pc = "done" /\ callers[c].joined # 0) =>
                  /\ refreshes[callers[c].joined].pc \in {"resolved", "rejected"}
                  /\ refreshes[callers[c].joined].pc = "resolved" =>
                        callers[c].result = <<"ok", refreshes[callers[c].joined].scope>>
                  /\ refreshes[callers[c].joined].pc = "rejected" =>
                        callers[c].result = <<"error">>)

\* the scope loaded at time 0 expired at time 2; one caller then received the
\* scope of a second refresh, which saw a follow the first had not, and another
\* caller was served that scope from the cache
C27_Witness ==
    \E c, d \in Callers :
        /\ Len(refreshes) = 2
        /\ refreshes[1].pc = "resolved" /\ refreshes[2].pc = "resolved"
        /\ refreshes[1].scope # refreshes[2].scope
        /\ callers[c].pc = "done" /\ callers[c].joined = 2
        /\ callers[c].result = <<"ok", refreshes[2].scope>>
        /\ callers[d].pc = "done" /\ callers[d].joined = 0
        /\ callers[d].result = <<"ok", refreshes[2].scope>>
        /\ now = 2 /\ cached.loadedAtMs = 2

(***************************************************************************)
(* The protected HTTP endpoints: POST /api/study/token and                 *)
(* GET /api/study/compliance-summary (methods/study.ts) and                *)
(* GET /api/compliance/engagement_legacy (methods/monitor.ts).             *)
(* study.cfg is the configuration of the process: PRIORITIZE_API_KEY and   *)
(* STUDY_JWT_SECRET are <<>> (unset or empty) or <<value>>, legacyDb says  *)
(* whether ctx.legacyDb exists.  A header or parameter of a request is     *)
(* <<>> (absent) or <<value>>.  A JWT is the record of its claims and of   *)
(* the key that signed it.  In this specification the main and the legacy  *)
(* database hold no post and no engagement row, so the statements of the   *)
(* shared export handler read the same tables whichever database they are  *)
(* given.                                                                  *)
(***************************************************************************)
STUDY_JWT_ISSUER == "newsflows-bsky-feed-generator"
STUDY_JWT_AUDIENCE == "newsflows-study"

\* parseTtlSeconds(): STUDY_JWT_TTL_SECONDS, default 4 days (scaled to ticks)
StudyTtl == 2
\* getComplianceSummaryRateLimitConfig(): 60 requests per 60 seconds (scaled:
\* the window is two ticks of TickMs milliseconds)
RateLimitMax == 2
RateLimitWindow == 2
TickMs == 30000
\* pruneComplianceSummaryRateLimit: at most every 10 minutes (scaled)
PruneInterval == 3
\* lastComplianceSummaryRateLimitPruneMs = 0 is the epoch, which lies more than a
\* prune interval before the start of the clock
NeverPruned == 0 - PruneInterval

\* jwt.sign(payload, secret, {issuer, audience, expiresIn})
SignToken(did, secret, nowSeconds) ==
    [sub |-> did, scope |-> "compliance:read", iss |-> STUDY_JWT_ISSUER,
     aud |-> STUDY_JWT_AUDIENCE, exp |-> nowSeconds + StudyTtl, key |-> secret]

\* jwt.verify(token, secret, {issuer, audience}) does not throw
VerifyToken(token, secret, nowSeconds) ==
    /\ "key" \in DOMAIN token
    /\ token.key = secret
    /\ token.iss = STUDY_JWT_ISSUER
    /\ token.aud = STUDY_JWT_AUDIENCE
    /\ nowSeconds < token.exp

\* assertDid: a string that starts with did: and has at least six characters
\* (here: the DIDs of the model)
IsDid(value) == value \in Dids

\* mutant: an unset secret is not noticed
NotConfiguredNever(value) == FALSE

\* `if (!secret)`, `if (!expectedApiKey)`
NotConfigured(value) == value = <<>>

StudyResponse(status, error) == [status |-> status, error |-> error]

\* POST /api/study/token up to its await: <<response>>, or <<>> when the
\* subscriber lookup is issued
TokenFirst(cfg, req) ==
    IF NotConfigured(cfg.PRIORITIZE_API_KEY)
    THEN <<StudyResponse(500, "PRIORITIZE_API_KEY is not configured")>>
    ELSE IF req.apiKey = <<>> \/ req.apiKey # cfg.PRIORITIZE_API_KEY
    THEN <<StudyResponse(401, "Unauthorized")>>
    ELSE IF req.did = <<>> \/ ~IsDid(req.did[1])
    THEN <<StudyResponse(400, "Invalid DID")>>
    ELSE <<>>

\* POST /api/study/token after the subscriber lookup
TokenSecond(cfg, did, subscribers, nowSeconds) ==
    IF did \notin subscribers
    THEN StudyResponse(404, "DID is not subscribed")
    ELSE IF NotConfigured(cfg.STUDY_JWT_SECRET)
    THEN StudyResponse(500, "Study JWT secret is not configured")
    ELSE [status |-> 200, requester_did |-> did,
          token |-> SignToken(did, cfg.STUDY_JWT_SECRET, nowSeconds),
          exp |-> nowSeconds + StudyTtl]

\* GET /api/study/compliance-summary up to the rate limit: <<response>>, or <<>>
\* when the token is accepted
SummaryAuth(cfg, req, nowSeconds) ==
    IF req.bearer = <<>>
    THEN <<StudyResponse(401, "Unauthorized")>>
    ELSE IF NotConfigured(cfg.STUDY_JWT_SECRET)
    THEN <<StudyResponse(500, "Study JWT secret is not configured")>>
    ELSE IF ~VerifyToken(req.bearer[1], cfg.STUDY_JWT_SECRET, nowSeconds)
    THEN <<StudyResponse(401, "Unauthorized")>>
    ELSE IF req.bearer[1].scope # "compliance:read"
    THEN <<StudyResponse(403, "Forbidden")>>
    ELSE IF ~IsDid(req.bearer[1].sub)
    THEN <<StudyResponse(401, "Unauthorized")>>
    ELSE <<>>

NoLimitState == <<>>

\* mutant: a prune drops every entry
PruneEveryEntry(rl, lastPrune, nowMs) ==
    IF nowMs - lastPrune < PruneInterval THEN rl ELSE [k \in DOMAIN rl |-> NoLimitState]

\* pruneComplianceSummaryRateLimit(nowMs, windowMs)
PruneRateLimit(rl, lastPrune, nowMs) ==
    IF nowMs - lastPrune < PruneInterval THEN rl
    ELSE [k \in DOMAIN rl |->
            IF rl[k] # NoLimitState /\ nowMs > rl[k][1].resetAt + RateLimitWindow
            THEN NoLimitState ELSE rl[k]]

\* checkComplianceSummaryRateLimit(key, config): the verdict and the map it leaves
CheckRateLimit(rl, lastPrune, key, nowMs) ==
    LET pruned == PruneRateLimit(rl, lastPrune, nowMs)
        last == IF nowMs - lastPrune < PruneInterval THEN lastPrune ELSE nowMs
        state == pruned[key]
    IN  IF state = NoLimitState \/ nowMs >= state[1].resetAt
        THEN [ok |-> TRUE, lastPrune |-> last,
              rateLimit |-> [pruned EXCEPT ![key] =
                                <<[count |-> 1, resetAt |-> nowMs + RateLimitWindow]>>]]
        ELSE IF state[1].count >= RateLimitMax
        THEN [ok |-> FALSE, lastPrune |-> last, rateLimit |-> pruned,
              retryAfterSeconds |->
                  Max(1, ((state[1].resetAt - nowMs) * TickMs + 999) \div 1000)]
        ELSE [ok |-> TRUE, lastPrune |-> last,
              rateLimit |-> [pruned EXCEPT ![key] =
                                <<[state[1] EXCEPT !.count = @ + 1]>>]]

\* select count, max(timestamp), array_agg(distinct algo) from request_log
\* where requester_did = did [and timestamp > minDate]
SummaryQueryResult(did, minDate) ==
    LET rows == {k \in DOMAIN request_log :
                    /\ request_log[k].requester_did = did
                    /\ minDate # <<>> => request_log[k].timestamp > minDate[1]}
    IN  [status |-> 200, requester_did |-> did, count |-> Cardinality(rows),
         algos |-> {request_log[k].algo : k \in rows},
         last_timestamp |-> IF rows = {} THEN <<>>
                            ELSE <<MaxOf({request_log[k].timestamp : k \in rows})>>]

StudyIdle(s) == s # <<>> /\ s.pc = "idle"

\* POST /api/study/token up to the subscriber lookup
BeginToken(req) ==
    /\ StudyIdle(study)
    /\ LET first == TokenFirst(study.cfg, req)
       IN  study' = IF first # <<>>
                    THEN [study EXCEPT !.pc = "responded", !.endpoint = "token",
                                       !.req = req, !.res = first[1]]
                    ELSE [study EXCEPT !.pc = "lookup", !.endpoint = "token",
                                       !.req = req, !.res = <<>>]
    /\ UNCHANGED <<dbVars, env, now, scopeVars, he, stream, agg, evt, exceptStudy>>

\* the subscriber lookup returns
TokenLookup ==
    /\ study # <<>>
    /\ study.pc = "lookup"
    /\ study' = [study EXCEPT !.pc = "responded",
                              !.res = TokenSecond(study.cfg, study.req.did[1],
                                                  subscriber, now)]
    /\ UNCHANGED <<dbVars, env, now, scopeVars, he, stream, agg, evt, exceptStudy>>

\* GET /api/study/compliance-summary up to its query
BeginSummary(req) ==
    /\ StudyIdle(study)
    /\ LET auth == SummaryAuth(study.cfg, req, now)
           check == CheckRateLimit(study.rateLimit, study.lastPrune, req.bearer[1].sub, now)
       IN  study' =
             IF auth # <<>>
             THEN [study EXCEPT !.pc = "responded", !.endpoint = "summary",
                                !.req = req, !.res = auth[1]]
             ELSE IF ~check.ok
             THEN [study EXCEPT !.pc = "responded", !.endpoint = "summary", !.req = req,
                                !.res = StudyResponse(429, "TooManyRequests")
                                          @@ [retryAfter |-> check.retryAfterSeconds],
                                !.rateLimit = check.rateLimit,
                                !.lastPrune = check.lastPrune]
             ELSE [study EXCEPT !.pc = "query", !.endpoint = "summary", !.req = req,
                                !.res = <<>>,
                                !.rateLimit = check.rateLimit,
                                !.lastPrune = check.lastPrune]
    /\ UNCHANGED <<dbVars, env, now, scopeVars, he, stream, agg, evt, exceptStudy>>

\* the summary query returns or throws
SummaryQuery(succeeds) ==
    /\ study # <<>>
    /\ study.pc = "query"
    /\ study' = [study EXCEPT
                   !.pc = "responded",
                   !.res = IF succeeds
                           THEN SummaryQueryResult(study.req.bearer[1].sub,
                                                   study.req.min_date)
                           ELSE StudyResponse(500, "An unexpected error occurred")]
    /\ UNCHANGED <<dbVars, env, now, scopeVars, he, stream, agg, evt, exceptStudy>>

\* the response has been sent and the handler has returned
StudyReturn ==
    /\ study # <<>>
    /\ study.pc = "responded"
    /\ study' = [study EXCEPT !.pc = "idle"]
    /\ UNCHANGED <<dbVars, env, now, scopeVars, he, stream, agg, evt, exceptStudy>>

\* GET /api/compliance/engagement_legacy up to the first await of the shared
\* handler; a request carries the configured api-key only when there is one
LegacyExport(req) ==
    /\ study # <<>>
    /\ req.apiKeyValid => study.cfg.PRIORITIZE_API_KEY # <<>>
    /\ IF ~study.cfg.legacyDb
       THEN /\ exp # <<>>
            /\ exp.pc = "idle"
            /\ exp' = [pc |-> "responded", req |-> req, queries |-> 0,
                       res |-> [status |-> 503, error |-> "LegacyDbUnavailable"]]
            /\ UNCHANGED <<dbVars, env, now, scopeVars, he, stream, agg, evt, exceptExport>>
       ELSE BeginExport(req)

StudyKey == <<"k">>
StudySecret == <<"s">>

StudyConfigs ==
    [PRIORITIZE_API_KEY : {<<>>, StudyKey}, STUDY_JWT_SECRET : {<<>>, StudySecret},
     legacyDb : BOOLEAN]

TokenRequests ==
    [apiKey : {<<>>, StudyKey, <<"x">>}, did : {<<>>, <<"S">>, <<"A">>, <<"handle">>}]

\* tokens a client can present: minted here at time 0, signed with another key,
\* of another scope, naming no DID, and a text that is no JWT
ClientTokens ==
    {SignToken("S", StudySecret, 0),
     SignToken("S", <<"other">>, 0),
     [SignToken("S", StudySecret, 0) EXCEPT !.scope = "other:read"],
     SignToken("handle", StudySecret, 0),
     [junk |-> TRUE, sub |-> "S", scope |-> "compliance:read"]}

SummaryRequests ==
    [bearer : {<<>>} \cup {<<t>> : t \in ClientTokens}, min_date : {<<>>, <<0>>}]

LegacyRequests ==
    {PlainRequest, [PlainRequest EXCEPT !.apiKeyValid = FALSE],
     [PlainRequest EXCEPT !.limit = <<<<"x">>>>]}

InitStudy ==
    /\ post = EmptyTable
    /\ engagement = EmptyTable
    /\ follows = {}
    /\ subscriber = {"S"}
    /\ sub_state = <<>>
    /\ env = [scoped |-> FALSE, track |-> FALSE, restrict |-> FALSE]
    /\ now = 0
    /\ IdleScope
    /\ he = <<>>
    /\ stream = <<>>
    /\ agg = <<>>
    /\ evt = NoEvt
    /\ binds = NoBinds
    /\ retention = <<>>
    /\ feed = <<>>
    /\ exp = ExportIdle
    /\ request_log =
          <<[id |-> 1, algo |-> shortname, requester_did |-> "S", timestamp |-> 0,
             cursor_in |-> NoCursor, cursor_out |-> NoCursor, requested_limit |-> 3,
             publisher_count |-> 0, follows_count |-> 0, result_count |-> 0],
            [id |-> 2, algo |-> shortname, requester_did |-> "S", timestamp |-> 1,
             cursor_in |-> NoCursor, cursor_out |-> NoCursor, requested_limit |-> 3,
             publisher_count |-> 0, follows_count |-> 0, result_count |-> 0]>>
    /\ request_posts = {}
    /\ timers = <<>>
    /\ sched = <<>>
    /\ \E cfg \in StudyConfigs :
          study = [cfg |-> cfg, pc |-> "idle", endpoint |-> "", req |-> <<>>, res |-> <<>>,
                   rateLimit |-> [d \in Dids |-> NoLimitState],
                   lastPrune |-> NeverPruned]

NextStudy ==
    \/ \E req \in TokenRequests : BeginToken(req)
    \/ TokenLookup
    \/ \E req \in SummaryRequests : BeginSummary(req)
    \/ \E succeeds \in BOOLEAN : SummaryQuery(succeeds)
    \/ StudyReturn
    \/ \E req \in LegacyRequests : LegacyExport(req)
    \/ ExportPrimaryQuery
    \/ ExportOtherQuery
    \/ ExportReturn
    \/ Tick

SpecStudy == InitStudy /\ [][NextStudy]_vars

(***************************************************************************)
(* C29.  A protected endpoint whose secret or configuration is missing.    *)
(***************************************************************************)
TokenAnswered == study.pc = "responded" /\ study.endpoint = "token"
SummaryAnswered == study.pc = "responded" /\ study.endpoint = "summary"
LegacyAnswered == exp.pc = "responded"

AgreeOn(cfg, key) == {c \in StudyConfigs : c[key] = cfg[key]}

MaxPages == 3          \* a session is followed for at most this many further requests
MaxPagingTicks == 1    \* the clock advances at most this often during SpecPaging

SessionPages(e) == IF "session" \in DOMAIN e THEN e.session ELSE <<>>

\* the client repeats the request it was answered, now with the next_cursor
FollowCursor ==
    /\ exp # <<>>
    /\ exp.pc = "responded"
    /\ exp.res.status = 200
    /\ exp.res.next_cursor # NoParam
    /\ Len(SessionPages(exp)) < MaxPages
    /\ exp' = ExportStart([exp.req EXCEPT !.cursor = exp.res.next_cursor])
              @@ [session |-> Append(SessionPages(exp), exp.res.events)]
    /\ UNCHANGED <<dbVars, env, now, scopeVars, he, stream, agg, evt, exceptExport>>

\* time passes between two requests
PagingTick ==
    /\ now < ExportNow + MaxPagingTicks
    /\ exp.pc \in {"idle", "responded"}
    /\ now' = now + 1
    /\ UNCHANGED <<jobVars, post, engagement, follows, subscriber, sub_state, env, cached,
                   refreshInFlight, refreshes, callers, he, stream, agg, evt>>

PagingRequests ==
    {[apiKeyValid |-> TRUE, since |-> w[1], until |-> w[2], scope |-> sc, page |-> NoParam,
      limit |-> lim, subscriber_did |-> NoParam, include |-> NoParam, types |-> NoParam,
      cursor |-> NoParam, other_cursor |-> NoParam] :
        w \in {<<NoParam, NoParam>>, <<<<Iso(0)>>, <<Iso(22)>>>>},
        sc \in {NoParam, <<"publisher">>},
        lim \in {<<<<"1">>>>, <<<<"2">>>>}}

\* the store: two events of the subscriber in the last 24 hours, and three events
\* on the publisher's post that carry one and the same "createdAt" text, which is
\* spelled with an offset (12), canonically (13) or with a bare Z (14)
InitPaging ==
    /\ \E spelled \in {12, 13, 14} :
        /\ post = (uP1 :> ExportPost(uP1, NoUri, 0)) @@ (uB1 :> ExportPost(uB1, NoUri, 0))
        /\ engagement =
                  (lSP.uri :> ExportEngagement(lSP.uri, uP1, 2, spelled))
               @@ (lBP.uri :> ExportEngagement(lBP.uri, uP1, 2, spelled))
               @@ (rBP.uri :> ExportEngagement(rBP.uri, uP1, 1, spelled))
               @@ (rSB.uri :> ExportEngagement(rSB.uri, uB1, 1, ExportNow - 1))
               @@ (lSA.uri :> ExportEngagement(lSA.uri, uA1, 2, ExportNow - 1))
    /\ follows = {<<"S", "A">>}
    /\ subscriber = {"S"}
    /\ sub_state = <<>>
    /\ env = [scoped |-> FALSE, track |-> FALSE, restrict |-> FALSE]
    /\ now = ExportNow
    /\ IdleScope
    /\ he = <<>>
    /\ stream = <<>>
    /\ agg = <<>>
    /\ evt = NoEvt
    /\ binds = NoBinds
    /\ retention = <<>>
    /\ feed = <<>>
    /\ exp = ExportIdle
    /\ request_log = <<>>
    /\ request_posts = {}
    /\ timers = <<>>
    /\ sched = <<>>
    /\ study = <<>>

NextPaging ==
    \/ \E req \in PagingRequests : BeginExport(req)
    \/ ExportPrimaryQuery
    \/ ExportReturn
    \/ FollowCursor
    \/ PagingTick

SpecPaging == InitPaging /\ [][NextPaging]_vars

\* the request repeats an earlier one of its session and carries that one's next_cursor
IsReplay == exp # <<>> /\ exp.pc = "responded" /\ SessionPages(exp) # <<>>
RejectedAsMismatch ==
    /\ exp.res.status = 400
    /\ exp.res.message = "cursor does not match request filters"
WindowGiven(req) == TimeGiven(req.since) /\ TimeGiven(req.until)

(***************************************************************************)
(* C31.  A next_cursor is accepted when it is replayed in a later request  *)
(* with exactly the query parameters of the request that returned it, also *)
(* when since and until are omitted and the default window applies.        *)
(***************************************************************************)
C31_ReplayedCursorAccepted == IsReplay => ~RejectedAsMismatch

\* a replay without since and until, sent after the clock moved, answered 400
C31_Witness ==
    /\ IsReplay
    /\ ~WindowGiven(exp.req)
    /\ RejectedAsMismatch
    /\ now > ExportNow

\* with since and until in the request the replayed cursor is accepted at any time
ExplicitWindowReplayAccepted == (IsReplay /\ WindowGiven(exp.req)) => exp.res.status = 200

\* with the default window the replayed cursor is accepted while the clock stands
DefaultWindowReplayAcceptedAtOnce ==
    (IsReplay /\ ~WindowGiven(exp.req) /\ now = ExportNow) => exp.res.status = 200

(***************************************************************************)
(* C32.  With a fixed store and explicit filters, the first request and    *)
(* the requests that follow next_cursor return the deduplicated result     *)
(* once, in created_at-descending, event_uri-descending order: the events  *)
(* delivered so far are a prefix of the ordered result, every page before  *)
(* the last has exactly limit events, and next_cursor is present exactly   *)
(* when an event remains.                                                  *)
(***************************************************************************)
FullResult == ExportOrder(Deduped(Scoped(exp.v.filters, exp.v.filters.scope)))
Delivered == Flatten(SessionPages(exp)) \o exp.res.events
Walked == exp # <<>> /\ exp.pc = "responded" /\ exp.res.status = 200 /\ WindowGiven(exp.req)

C32_CursorWalkReturnsResultOnce ==
    Walked =>
        /\ Len(Delivered) <= Len(FullResult)
        /\ Delivered = SubSeq(FullResult, 1, Len(Delivered))
        /\ \A i \in DOMAIN SessionPages(exp) : Len(SessionPages(exp)[i]) = exp.v.filters.limit
        /\ exp.res.next_cursor # NoParam => Len(exp.res.events) = exp.v.filters.limit
        /\ exp.res.next_cursor # NoParam <=> Len(Delivered) < Len(FullResult)

\* a walk that ended (no next_cursor) although an event of the result was never delivered
C32_Witness ==
    /\ Walked
    /\ SessionPages(exp) # <<>>
    /\ exp.res.next_cursor = NoParam
    /\ \E r \in Range(FullResult) : r \notin Range(Delivered)

\* a walk that delivers an event a second time
EventDeliveredTwice ==
    /\ Walked
    /\ \E i, j \in DOMAIN Delivered : i # j /\ Delivered[i] = Delivered[j]

\* where every stored "createdAt" is in the canonical spelling the walk is exact
CanonicalStore ==
    /\ \A u \in DOMAIN engagement : toISOString(engagement[u].createdAt) = engagement[u].createdAt
    /\ \A u \in DOMAIN post : toISOString(post[u].createdAt) = post[u].createdAt
CanonicalStoreWalkExact == CanonicalStore => C32_CursorWalkReturnsResultOnce

(***************************************************************************)
(* Retention with the batch size read from the environment.  getIntEnv     *)
(* takes any integer text, so FEEDGEN_RETENTION_DELETE_BATCH_SIZE may be 0 *)
(* or negative.  PostgreSQL rejects a negative LIMIT ("LIMIT must not be    *)
(* negative"): the awaited statement throws and runRetentionOnce, which    *)
(* has no try block, rejects.                                              *)
(***************************************************************************)
defaultDeleteBatchSize == 50000

\* getIntEnv: the default for an unset or empty variable and for a text parseInt
\* makes NaN of; else the integer, whatever its sign
getIntEnv(raw, defaultValue) ==
    IF raw = <<>> THEN defaultValue
    ELSE IF parseInt(raw).nan THEN defaultValue
    ELSE parseInt(raw).n

BatchSizeTexts == {<<>>, <<"x">>, <<"0">>, <<"-", "1">>, <<"1">>, <<"2">>}

ThrewPass == [pc |-> "threw"]
InLoop(s) ==
    /\ retention # <<>>
    /\ PassActive(s)
    /\ retention.passes[s].pc \in {"engagement", "post"}

\* the DELETE of either loop throws; the pass rejects
DeleteStatementFails(s) ==
    /\ InLoop(s)
    /\ retention.cfg.deleteBatchSize < 0
    /\ retention' = [retention EXCEPT !.passes[s] = ThrewPass]
    /\ UNCHANGED <<dbVars, env, now, scopeVars, he, stream, agg, evt, exceptRetention>>

InitRetentionEnv ==
    /\ post = (uA1 :> AgedPost(cA1, -3)) @@ (uB1 :> AgedPost(cB1, -3))
                @@ (uB2 :> AgedPost(cB2, -2)) @@ (uP1 :> AgedPost(cP1, 0))
    /\ engagement = (lBA.uri :> AgedLike(lBA, -2)) @@ (lSA.uri :> AgedLike(lSA, -1))
                      @@ (lBP.uri :> AgedLike(lBP, 0))
    /\ follows = {<<"S", "A">>}
    /\ subscriber = {"S"}
    /\ sub_state = <<>>
    /\ env = [scoped |-> FALSE, track |-> FALSE, restrict |-> FALSE]
    /\ now = 0
    /\ IdleScope
    /\ he = <<>>
    /\ stream = <<>>
    /\ agg = <<>>
    /\ evt = NoEvt
    /\ binds = NoBinds
    /\ feed = <<>>
    /\ exp = <<>>
    /\ request_log = <<>>
    /\ request_posts = {}
    /\ timers = <<>>
    /\ sched = <<>>
    /\ study = <<>>
    /\ \E raw \in BatchSizeTexts :
          retention = [cfg |-> getRetentionConfig(TRUE, getIntEnv(raw, defaultDeleteBatchSize)),
                       passes |-> [s \in {1, 2} |-> IdlePass]]

NextRetentionEnv ==
    \/ \E s \in {1, 2} : StartPass(s)
    \/ \E s \in {1, 2} : DeleteEngagementBatch(s)
    \/ \E s \in {1, 2} : DeletePostBatch(s)
    \/ \E s \in {1, 2} : DeleteStatementFails(s)
    \/ \E ops \in RetentionBatches : RetentionHandleEvent(ops)
    \/ Tick

\* Fairness: every awaited DELETE completes or throws.
SpecRetentionEnv ==
    /\ InitRetentionEnv
    /\ [][NextRetentionEnv]_vars
    /\ \A s \in {1, 2} : WF_vars(PassStep(s) \/ DeleteStatementFails(s))

(***************************************************************************)
(* C33.  Every runRetentionOnce call terminates: for every delete batch    *)
(* size getRetentionConfig accepts, 0 and negative values included, and    *)
(* every finite backlog, a pass that is in one of its delete loops         *)
(* eventually has left both.                                               *)
(***************************************************************************)
C33_EveryPassTerminates == \A s \in {1, 2} : InLoop(s) ~> ~InLoop(s)

\* a pass with batch size 0 in its engagement loop while expired rows are stored:
\* its DELETE ... LIMIT 0 removes no row, and 0 < 0 does not leave the loop
C33_Witness ==
    /\ InLoop(1)
    /\ retention.cfg.deleteBatchSize = 0
    /\ retention.passes[1].pc = "engagement"
    /\ Expired(engagement, retention.passes[1].engagementCutoff) # {}
    /\ LimitedBatches(engagement, retention.passes[1].engagementCutoff, 0) = {{}}
    /\ ~(0 < retention.cfg.deleteBatchSize)

\* with any other batch size the pass ends: it returns, or it rejects on a negative LIMIT
OtherBatchSizesTerminate ==
    \A s \in {1, 2} : (InLoop(s) /\ retention.cfg.deleteBatchSize # 0) ~> ~InLoop(s)

\* a pass with batch size 0 never leaves its first loop and never deletes a row
ZeroBatchPassStaysInLoop ==
    [][\A s \in {1, 2} :
          (InLoop(s) /\ retention.cfg.deleteBatchSize = 0) =>
              /\ retention'.passes[s] = retention.passes[s]
              /\ retention.passes[s].pc = "engagement"
              /\ evt' = evt => (post' = post /\ engagement' = engagement)]_vars

(***************************************************************************)
(* C34.  After stopAllSchedulers has returned, no scheduled job (follow    *)
(* refresh, engagement aggregation, retention, daily full follow sync)     *)
(* starts a new run and no new timer is registered, whatever schedulers    *)
(* were set up before and whenever stop is called relative to the first    *)
(* 4:00 AM run.                                                            *)
(***************************************************************************)
C34_NothingStartsAfterStop ==
    [][sched.stopped =>
          /\ \A j \in Jobs :
                /\ sched'.timer[j].started = sched.timer[j].started
                /\ sched'.timer[j].armed => sched.timer[j].armed
          /\ sched'.activeTimers = sched.activeTimers]_vars

\* stop was called before the first 4:00 AM run; afterwards the full sync has
\* started and its daily interval is armed and registered
C34_Witness ==
    /\ sched # <<>>
    /\ sched.stopped
    /\ sched.firstRun = "fired"
    /\ sched.timer["fullsync"].started >= 1
    /\ sched.timer["fullsync"].armed
    /\ sched.activeTimers = <<"daily">>

\* the timers of the three interval schedulers never start a run after stop
IntervalSchedulersStayStopped ==
    [][sched.stopped =>
          \A s \in Schedulers :
              /\ sched'.timer[s].started = sched.timer[s].started
              /\ ~sched'.timer[s].armed]_vars

\* when the first 4:00 AM run came before the stop, nothing starts after the stop
StopAfterFirstRunIsFinal ==
    [][(sched.stopped /\ sched.firstRun # "pending" /\ sched.activeTimers = <<>>) =>
          /\ \A j \in Jobs : sched'.timer[j].started = sched.timer[j].started
          /\ \A j \in Jobs : ~sched'.timer[j].armed
          /\ sched'.activeTimers = <<>>]_vars

(***************************************************************************)
(* C35.  A failed scope refresh does not wedge the resolver.  The step in  *)
(* which the backing query of a refresh fails leaves the cache unchanged;  *)
(* every caller awaiting that refresh resumes with the error; the caller   *)
(* that started it clears the in-flight marker as it resumes, so the       *)
(* marker points to a settled refresh only while that continuation is      *)
(* pending and is eventually cleared; and a call that finds the marker     *)
(* cleared and no young cached scope starts a new refresh.                 *)
(***************************************************************************)
FailsIn(i) ==
    /\ i \in DOMAIN refreshes
    /\ refreshes[i].pc \in {"follows", "subs"}
    /\ refreshes'[i].pc = "rejected"

ResumesFromFailed(c) ==
    /\ callers[c].pc \in {"awaitOwn", "awaitShared"}
    /\ callers'[c].pc = "done"
    /\ refreshes[callers[c].joined].pc = "rejected"

CallsIn(c) == callers[c].pc \in {"idle", "done"} /\ callers'[c] # callers[c]

C35_FailedRefreshDoesNotWedge ==
    /\ [][\A i \in 1..MaxRefreshes : FailsIn(i) => cached' = cached]_vars
    /\ [][\A c \in Callers : ResumesFromFailed(c) =>
             /\ callers'[c].result = <<"error">>
             /\ callers[c].pc = "awaitOwn" => refreshInFlight' = <<>>]_vars
    /\ [](\A i \in DOMAIN refreshes :
             (refreshInFlight = <<i>> /\ refreshes[i].pc \in {"resolved", "rejected"}) =>
                 \E c \in Callers : callers[c].pc = "awaitOwn" /\ callers[c].joined = i)
    /\ \A i \in 1..MaxRefreshes :
          (i \in DOMAIN refreshes /\ refreshes[i].pc = "rejected") ~> (refreshInFlight # <<i>>)
    /\ [][\A c \in Callers :
             (CallsIn(c) /\ refreshInFlight = <<>>
                 /\ ~(cached.valid /\ now - cached.loadedAtMs < allowlistRefreshMs)) =>
                 /\ Len(refreshes') = Len(refreshes) + 1
                 /\ refreshInFlight' = <<Len(refreshes')>>
                 /\ callers'[c].pc = "awaitOwn"]_vars

\* the first refresh failed: its starter and a caller that had joined it resumed
\* with the error, the cache is still empty, the marker was cleared, and the next
\* call has started the second refresh
C35_Witness ==
    /\ Len(refreshes) = 2
    /\ refreshes[1].pc = "rejected"
    /\ refreshes[2].pc = "follows"
    /\ refreshInFlight = <<2>>
    /\ cached = NoCache
    /\ callers["c1"].pc = "done" /\ callers["c1"].joined = 1 /\ callers["c1"].result = <<"error">>
    /\ callers["c2"].pc = "done" /\ callers["c2"].joined = 1 /\ callers["c2"].result = <<"error">>
    /\ callers["c3"].pc = "awaitOwn" /\ callers["c3"].joined = 2

\* between the failure and the continuation of the starter the marker still holds the
\* rejected promise; a call made then joins it and resumes with the same error
JoinsRejectedRefresh ==
    \E c \in Callers :
        /\ callers[c].pc = "awaitShared"
        /\ refreshes[callers[c].joined].pc = "rejected"
        /\ callers[c].atCall = {}

(***************************************************************************)
(* The rate limit of GET /api/study/compliance-summary over a longer run   *)
(* of the clock: two subscribers with valid tokens, the endpoint fully     *)
(* configured.                                                             *)
(***************************************************************************)
MaxStudyClock == 5

StudyTick ==
    /\ study # <<>>
    /\ now < MaxStudyClock
    /\ now' = now + 1
    /\ UNCHANGED <<jobVars, post, engagement, follows, subscriber, sub_state, env, cached,
                   refreshInFlight, refreshes, callers, he, stream, agg, evt>>

LimitedDids == {"S", "A"}
LimitRequests ==
    [bearer : {<<SignToken(d, StudySecret, t)>> : d \in LimitedDids, t \in {0, 2, 4}},
     min_date : {<<>>}]

InitRateLimit ==
    /\ post = EmptyTable
    /\ engagement = EmptyTable
    /\ follows = {}
    /\ subscriber = LimitedDids
    /\ sub_state = <<>>
    /\ env = [scoped |-> FALSE, track |-> FALSE, restrict |-> FALSE]
    /\ now = 0
    /\ IdleScope
    /\ he = <<>>
    /\ stream = <<>>
    /\ agg = <<>>
    /\ evt = NoEvt
    /\ binds = NoBinds
    /\ retention = <<>>
    /\ feed = <<>>
    /\ exp = ExportIdle
    /\ request_log = <<>>
    /\ request_posts = {}
    /\ timers = <<>>
    /\ sched = <<>>
    /\ study = [cfg |-> [PRIORITIZE_API_KEY |-> StudyKey, STUDY_JWT_SECRET |-> StudySecret,
                         legacyDb |-> FALSE],
                pc |-> "idle", endpoint |-> "", req |-> <<>>, res |-> <<>>,
                rateLimit |-> [d \in Dids |-> NoLimitState], lastPrune |-> NeverPruned]

NextRateLimit ==
    \/ \E req \in LimitRequests : BeginSummary(req)
    \/ \E succeeds \in BOOLEAN : SummaryQuery(succeeds)
    \/ StudyReturn
    \/ StudyTick

SpecRateLimit == InitRateLimit /\ [][NextRateLimit]_vars

\* the step is a summary request of DID d that passed the rate limit / was refused by it
Admitted(d) ==
    /\ study.pc = "idle" /\ study'.pc = "query"
    /\ study'.req.bearer[1].sub = d
Refused(d) ==
    /\ study.pc = "idle" /\ study'.pc = "responded"
    /\ study'.res.status = 429
    /\ study'.req.bearer[1].sub = d
\* the window of an entry has begun and its resetAt has not been reached
WindowOpen(e) == e # NoLimitState /\ now < e[1].resetAt

(***************************************************************************)
(* C36.  For every DID the rate limit admits at most `max` requests        *)
(* between the first admitted request of a window and that window's        *)
(* resetAt: the counter never exceeds max; while a window is open its      *)
(* entry changes only by counting one admitted request of that DID; an     *)
(* admitted request outside an open window starts a window with count 1.   *)
(* A refused request leaves the counter as it is and reports a             *)
(* retryAfterSeconds of at least 1, and a prune removes only entries whose *)
(* window has expired.                                                     *)
(***************************************************************************)
C36_RateLimitWindowSound ==
    /\ [](\A d \in Dids :
             study.rateLimit[d] # NoLimitState =>
                 study.rateLimit[d][1].count \in 1..RateLimitMax)
    /\ [][\A d \in Dids :
             LET e == study.rateLimit[d]
                 f == study'.rateLimit[d]
             IN  /\ WindowOpen(e) =>
                        \/ f = e /\ ~Admitted(d)
                        \/ /\ Admitted(d)
                           /\ e[1].count < RateLimitMax
                           /\ f = <<[count |-> e[1].count + 1, resetAt |-> e[1].resetAt]>>
                 /\ (Admitted(d) /\ ~WindowOpen(e)) =>
                        f = <<[count |-> 1, resetAt |-> now + RateLimitWindow]>>
                 /\ Refused(d) =>
                        /\ f = e
                        /\ WindowOpen(e)
                        /\ study'.res.retryAfter >= 1
                 /\ (e # NoLimitState /\ f = NoLimitState) => now >= e[1].resetAt]_vars

\* a prune has run at time 3 and kept the open window of A; S, whose window began
\* at that time, has been admitted twice and is refused with a Retry-After
C36_Witness ==
    /\ study # <<>>
    /\ study.pc = "responded"
    /\ study.res.status = 429
    /\ study.res.retryAfter >= 1
    /\ study.req.bearer[1].sub = "S"
    /\ now = 3
    /\ study.lastPrune = 3
    /\ study.rateLimit["A"] = <<[count |-> 1, resetAt |-> 4]>>
    /\ study.rateLimit["S"] = <<[count |-> RateLimitMax, resetAt |-> 3 + RateLimitWindow]>>

\* a prune has removed an entry
EntryPruned ==
    /\ study # <<>>
    /\ study.lastPrune = 5
    /\ study.rateLimit["A"] = NoLimitState
    /\ study.rateLimit["S"] # NoLimitState
    /\ study.rateLimit["S"][1].count = 2

(***************************************************************************)
(* C37.  The feed buildFeed returns never has more entries than the        *)
(* requested limit: at most floor(limit/3) come from the publisher stream  *)
(* and at most 2*floor(limit/3) from the network stream, so a request with *)
(* limit 1 or 2 returns an empty feed and no cursor even when candidates   *)
(* exist.                                                                  *)
(***************************************************************************)
C37_FeedWithinRequestedLimit ==
    Responded =>
        LET F == feed.res.feed
            third == feed.params.limit \div 3
        IN  /\ Len(F) <= feed.params.limit
            /\ Cardinality({i \in DOMAIN F : FromPublisher(F[i])}) <= third
            /\ Cardinality({i \in DOMAIN F : ~FromPublisher(F[i])}) <= 2 * third
            /\ feed.params.limit \in {1, 2} =>
                   /\ F = <<>>
                   /\ feed.res.cursor = NoCursor

\* a first page of 2 over 4 publisher and 7 network candidates is empty and has no cursor
C37_Witness ==
    /\ Responded
    /\ feed.params = [limit |-> 2, cursor |-> NoCursor]
    /\ feed.publisherCandidates = 4 /\ feed.otherCandidates = 7
    /\ feed.res.feed = <<>>
    /\ feed.res.cursor = NoCursor

\* a first page of 10 over the same candidates has 3 publisher and 6 network entries
TenRequestedNineReturned ==
    /\ Responded
    /\ feed.params = [limit |-> 10, cursor |-> NoCursor]
    /\ Len(feed.res.feed) = 9
    /\ Cardinality({i \in DOMAIN feed.res.feed : FromPublisher(feed.res.feed[i])}) = 3

(***************************************************************************)
(* Quote posts and their deletes.  SpecQuote starts from the rows that an  *)
(* earlier process lifetime stored for two quote posts (B quotes the       *)
(* publisher, subscriber S quotes B) under the same flags; the scope cache *)
(* of the new process is empty.                                            *)
(***************************************************************************)
QuoteCreates == Batch(<<cB5, cS2>>, <<>>, <<>>, <<>>, <<>>, <<>>)

QuoteBatches ==
    {Batch(<<>>, <<Delete(uB5)>>, <<>>, <<>>, <<>>, <<>>),
     Batch(<<>>, <<Delete(uS2)>>, <<>>, <<>>, <<>>, <<>>),
     Batch(<<>>, <<Delete(uB5), Delete(uS2)>>, <<rBP>>, <<>>, <<lSP>>, <<>>),
     Batch(<<>>, <<Delete(uA1)>>, <<>>, <<>>, <<>>, <<>>),
     \* one commit that deletes and creates the same quote post
     Batch(<<cB5>>, <<Delete(uB5)>>, <<>>, <<>>, <<>>, <<>>),
     Batch(<<cB4>>, <<>>, <<>>, <<>>, <<>>, <<>>),
     QuoteCreates}

InitQuote ==
    /\ follows = {<<"S", "A">>}
    /\ subscriber \in {{}, {"S"}}
    /\ sub_state = <<>>
    /\ env \in Flags
    /\ now = 0
    /\ IdleScope
    /\ LET sc == IF NeedsScope THEN <<ScopeNow>> ELSE <<>>
       IN  /\ post = ExecPostInsert([u \in {uA1} |-> OldRow],
                                    postsToCreate(QuoteCreates, sc, 0))
           /\ engagement = ExecEngagementInsert(EmptyTable,
                                                engagementsToCreate(QuoteCreates, sc, 0))
    /\ he = <<>>
    /\ JobsIdle
    /\ stream = <<>>
    /\ agg = <<>>
    /\ evt = NoEvt

NextQuote ==
    \/ \E ops \in QuoteBatches : HandleEvent(ops)
    \/ Tick

SpecQuote == InitQuote /\ [][NextQuote]_vars

\* the step handles a batch that deletes the post u and does not create it again
DeletesPost(u) ==
    /\ evt'.n = evt.n + 1
    /\ u \in Range(postsToDelete(evt'.batch))
    /\ \A i \in DOMAIN evt'.batch.posts.creates : evt'.batch.posts.creates[i].uri # u

HasQuoteRow(u) == u \in DOMAIN engagement /\ engagement[u].type = 3

(***************************************************************************)
(* C38.  Applying an upstream delete of a post that had produced a quote   *)
(* engagement row (type 3, same uri as the post) removes that engagement   *)
(* row together with the post row: after the handleEvent that applies the  *)
(* delete neither row is stored.                                           *)
(***************************************************************************)
C38_QuoteRowDeletedWithPost ==
    [][\A u \in {uB4, uB5, uS2, uA1} :
          (DeletesPost(u) /\ HasQuoteRow(u)) =>
              /\ u \notin DOMAIN post'
              /\ u \notin DOMAIN engagement']_vars

\* the delete of B's quote of the publisher post has been applied: its post row and
\* its quote row are gone, the quote row of S's post is still stored
C38_Witness ==
    /\ evt.n = 1
    /\ evt.batch = Batch(<<>>, <<Delete(uB5)>>, <<>>, <<>>, <<>>, <<>>)
    /\ uB5 \notin DOMAIN post
    /\ uB5 \notin DOMAIN engagement
    /\ uS2 \in DOMAIN engagement /\ engagement[uS2].type = 3

\* the start of SpecQuote with both quote rows stored
QuoteRowsStored ==
    /\ evt.n = 0
    /\ HasQuoteRow(uB5) /\ engagement[uB5].subjectUri = uP1
    /\ HasQuoteRow(uS2) /\ engagement[uS2].subjectUri = uB1
    /\ uB5 \in DOMAIN post

(***************************************************************************)
(* The aggregator among the other writers of the store.  SpecAggFrame      *)
(* runs updateEngagement while the projector handles commits that delete   *)
(* and create posts and while a retention pass deletes expired rows; the   *)
(* stored posts are old enough for retention to reach two of them once the *)
(* clock has advanced.                                                     *)
(***************************************************************************)
FrameBatches ==
    {Batch(<<>>, <<Delete(uB1)>>, <<>>, <<>>, <<>>, <<>>),
     Batch(<<cB3>>, <<>>, <<rBP>>, <<>>, <<lSP>>, <<Delete(lBA.uri)>>)}

FramePosts == {cA1, cB1, cB2, cP1}
FrameLikes == {lBA, lSA, lBP}

InitAggFrame ==
    /\ post = [u \in {c.uri : c \in FramePosts} |->
                  LET c == CHOOSE c \in FramePosts : c.uri = u
                  IN  CASE u = uA1 -> [StoredPost(c, 2, 1) EXCEPT !.indexedAt = -1,
                                                                  !.priority = <<1>>]
                        [] u = uB2 -> [StoredPost(c, 1, 0) EXCEPT !.indexedAt = -1]
                        [] u = uP1 -> StoredPost(c, 5, 2)
                        [] OTHER -> StoredPost(c, 0, 0)]
    /\ engagement = [e \in {l.uri : l \in FrameLikes} |->
                        StoredLike(CHOOSE l \in FrameLikes : l.uri = e)]
    /\ follows = {<<"S", "A">>, <<"S", "B">>}
    /\ subscriber = {"S"}
    /\ sub_state = <<>>
    /\ env = [scoped |-> FALSE, track |-> FALSE, restrict |-> FALSE]
    /\ now = 0
    /\ IdleScope
    /\ he = <<>>
    /\ stream = <<>>
    /\ agg = [s \in {1} |-> IdleRun]
    /\ evt = NoEvt
    /\ binds = NoBinds
    /\ feed = <<>>
    /\ exp = <<>>
    /\ request_log = <<>>
    /\ request_posts = {}
    /\ timers = <<>>
    /\ sched = <<>>
    /\ study = <<>>
    /\ retention = [cfg |-> getRetentionConfig(TRUE, 2),
                    passes |-> [s \in {1} |-> IdlePass]]

NextAggFrame ==
    \/ \E s \in Slots : StartRun(s)
    \/ \E s \in Slots : ReadSubscribers(s)
    \/ \E s \in Slots : ReadFollows(s)
    \/ \E s \in Slots : ReadPosts(s)
    \/ \E s \in Slots : CountChunk(s)
    \/ \E s \in Slots : UpdateBatch(s)
    \/ \E ops \in FrameBatches : AggHandleEvent(ops)
    \/ StartPass(1)
    \/ DeleteEngagementBatch(1)
    \/ DeletePostBatch(1)
    \/ Tick

SpecAggFrame == InitAggFrame /\ [][NextAggFrame]_vars

\* the columns of a post row that are not cached counts
OtherColumns(row) ==
    [author |-> row.author, indexedAt |-> row.indexedAt, rootUri |-> row.rootUri,
     linkUrl |-> row.linkUrl, priority |-> row.priority, quote_count |-> row.quote_count]

\* the run in slot s takes a step: it starts, or one of its awaited statements completes
RunSteps(s) == agg'[s] # agg[s]

\* the candidate set of the run in slot s, once it has read it
Candidates(s) == IF Active(s) /\ agg[s].pc \in Range(Phases)
                 THEN Range(PostUris(agg[s])) ELSE {}

(***************************************************************************)
(* C39.  An updateEngagement run changes nothing except the cached count   *)
(* columns of the candidate posts it selected: no step of a run inserts or *)
(* deletes a post or engagement row or changes an engagement, follow or    *)
(* subscriber row; a post row a step changes is a candidate of that run    *)
(* and keeps every column other than likes_count, repost_count and         *)
(* comments_count; and a candidate that the projector or retention deleted *)
(* after the candidate read is still absent after the bulk UPDATE.         *)
(***************************************************************************)
C39_RunChangesCandidateCountsOnly ==
    [][\A s \in Slots :
          RunSteps(s) =>
             /\ engagement' = engagement
             /\ <<follows, subscriber, sub_state>>' = <<follows, subscriber, sub_state>>
             /\ DOMAIN post' = DOMAIN post
             /\ \A u \in DOMAIN post :
                   /\ OtherColumns(post'[u]) = OtherColumns(post[u])
                   /\ post'[u] # post[u] => u \in Candidates(s)
             /\ \A u \in Candidates(s) \ DOMAIN post : u \notin DOMAIN post']_vars

\* the run read B's post 1 as a candidate, the projector then deleted it, and the
\* first bulk UPDATE named it and changed the counts of another candidate: the
\* deleted post is still absent and A's post kept its priority and indexedAt
C39_Witness ==
    /\ Active(1)
    /\ agg[1].pc = "update"
    /\ uB1 \in agg[1].written
    /\ evt.n = 1
    /\ agg[1].evtU = 1
    /\ evt.batch = Batch(<<>>, <<Delete(uB1)>>, <<>>, <<>>, <<>>, <<>>)
    /\ uB1 \notin DOMAIN post
    /\ uA1 \in agg[1].written
    /\ CachedCounts(post[uA1]) # [likes |-> 2, reposts |-> 1, comments |-> 0]
    /\ post[uA1].priority = <<1>>
    /\ post[uA1].indexedAt = -1

\* a candidate that a retention pass deleted after the candidate read has been
\* named by a bulk UPDATE and is absent
RetentionDeletedCandidate ==
    /\ Active(1)
    /\ agg[1].pc = "update"
    /\ evt.n = 0
    /\ retention.passes[1] = IdlePass
    /\ uB2 \in agg[1].written
    /\ uB2 \notin DOMAIN post

====
